---- MODULE Spec2Model ----
(***************************************************************************)
(* Domain Parkour: one request through the worker's fetch handler.         *)
(* getDomainConfig picks the base record from the configuration sources,   *)
(* getConfig lays the environment overrides and the derived fields over    *)
(* it, and fetch dispatches on the mode to one of the three renderers.     *)
(*                                                                         *)
(* A JavaScript string is a sequence of one-character strings, so that     *)
(* replace, split, the IPv4 test and the date parser work on its           *)
(* characters.                                                             *)
(***************************************************************************)
EXTENDS Integers, Sequences, FiniteSets, TLC

----------------------------------------------------------------------------
(* JavaScript values *)

Undefined == [t |-> "undefined"]
Null == [t |-> "null"]
NaN == [t |-> "NaN"]
Str(s) == [t |-> "string", s |-> s]
Num(n) == [t |-> "number", n |-> n]
Bool(b) == [t |-> "boolean", b |-> b]
Arr(items) == [t |-> "array", items |-> items]
Obj(o) == [t |-> "object", o |-> o]

IsString(v) == v.t = "string"
IsArray(v) == v.t = "array"

\* ToBoolean: what `if (v)`, `!v` and the left side of `||` see.
Truthy(v) ==
  CASE v.t = "undefined" -> FALSE
    [] v.t = "null" -> FALSE
    [] v.t = "NaN" -> FALSE
    [] v.t = "string" -> v.s # << >>
    [] v.t = "number" -> v.n # 0
    [] v.t = "boolean" -> v.b
    [] OTHER -> TRUE

\* a ?? b: what `||` would be if only undefined and null fell through
OrNullish(a, b) == IF a.t \in {"undefined", "null"} THEN b ELSE a

\* a || b
Or(a, b) == IF Truthy(a) THEN a ELSE b

\* An object literal or a parsed JSON object is a function from its own
\* property names to values; a property that is not there reads undefined.
NoProps == [k \in {} |-> Undefined]
Get(o, k) == IF k \in DOMAIN o THEN o[k] ELSE Undefined

\* { ...a, ...b }: the properties of b override those of a.
Merge(a, b) ==
  [k \in (DOMAIN a) \cup (DOMAIN b) |-> IF k \in DOMAIN b THEN b[k] ELSE a[k]]

\* The own enumerable properties `...v` copies.  A number, a boolean, null,
\* undefined and the empty array have none; no other array is spread.
OwnProps(v) == IF v.t = "object" THEN v.o ELSE NoProps

----------------------------------------------------------------------------
(* Strings *)

Digits == {"0", "1", "2", "3", "4", "5", "6", "7", "8", "9"}
DigitValue ==
  [c \in Digits |->
    CASE c = "0" -> 0 [] c = "1" -> 1 [] c = "2" -> 2 [] c = "3" -> 3
      [] c = "4" -> 4 [] c = "5" -> 5 [] c = "6" -> 6 [] c = "7" -> 7
      [] c = "8" -> 8 [] c = "9" -> 9]
DigitChar == <<"0", "1", "2", "3", "4", "5", "6", "7", "8", "9">>

UpperOf ==
  [a |-> "A", b |-> "B", c |-> "C", d |-> "D", e |-> "E", f |-> "F", g |-> "G",
   h |-> "H", i |-> "I", j |-> "J", k |-> "K", l |-> "L", m |-> "M", n |-> "N",
   o |-> "O", p |-> "P", q |-> "Q", r |-> "R", s |-> "S", t |-> "T", u |-> "U",
   v |-> "V", w |-> "W", x |-> "X", y |-> "Y", z |-> "Z"]

\* String.prototype.toUpperCase
ToUpperCase(s) ==
  [i \in 1..Len(s) |-> IF s[i] \in DOMAIN UpperOf THEN UpperOf[s[i]] ELSE s[i]]

\* s.replace(/c/g, to) for a one-character pattern
ReplaceAll(s, c, to) == [i \in 1..Len(s) |-> IF s[i] = c THEN to ELSE s[i]]

\* s.split(c) for a one-character separator
RECURSIVE Split(_, _)
Split(s, c) ==
  IF \E i \in 1..Len(s) : s[i] = c
    THEN LET i == CHOOSE j \in 1..Len(s) :
                    s[j] = c /\ \A k \in 1..(j - 1) : s[k] # c
         IN <<SubSeq(s, 1, i - 1)>> \o Split(SubSeq(s, i + 1, Len(s)), c)
    ELSE <<s>>

\* The decimal digits of a natural number
RECURSIVE NatToString(_)
NatToString(n) ==
  IF n < 10 THEN <<DigitChar[n + 1]>>
  ELSE NatToString(n \div 10) \o <<DigitChar[(n % 10) + 1]>>

\* Number-to-string of an integer, as a template literal formats it
IntToString(n) == IF n < 0 THEN <<"-">> \o NatToString(-n) ELSE NatToString(n)

\* `${v}` for the values the handler interpolates
ToStringJS(v) ==
  CASE v.t = "string" -> v.s
    [] v.t = "number" -> IntToString(v.n)
    [] v.t = "NaN" -> <<"N", "a", "N">>
    [] v.t = "undefined" -> <<"u", "n", "d", "e", "f", "i", "n", "e", "d">>
    [] v.t = "null" -> <<"n", "u", "l", "l">>
    [] v.t = "boolean" -> IF v.b THEN <<"t", "r", "u", "e">> ELSE <<"f", "a", "l", "s", "e">>
    [] OTHER -> <<"[", "o", "b", "j", "e", "c", "t", " ", "O", "b", "j", "e", "c", "t", "]">>

\* parseInt(s): an optional sign and the longest run of leading digits; NaN
\* when there is no digit.  Leading white space is skipped.
RECURSIVE DigitPrefix(_)
DigitPrefix(s) ==
  IF s # << >> /\ Head(s) \in Digits THEN <<Head(s)>> \o DigitPrefix(Tail(s))
  ELSE << >>

RECURSIVE DigitsValue(_)
DigitsValue(ds) ==
  IF ds = << >> THEN 0
  ELSE 10 * DigitsValue(SubSeq(ds, 1, Len(ds) - 1)) + DigitValue[ds[Len(ds)]]

RECURSIVE TrimStart(_)
TrimStart(s) == IF s # << >> /\ Head(s) = " " THEN TrimStart(Tail(s)) ELSE s

ParseInt(s) ==
  LET t == TrimStart(s)
      neg == t # << >> /\ Head(t) = "-"
      signed == t # << >> /\ Head(t) \in {"-", "+"}
      ds == DigitPrefix(IF signed THEN Tail(t) ELSE t)
  IN IF ds = << >> THEN NaN
     ELSE Num(IF neg THEN -DigitsValue(ds) ELSE DigitsValue(ds))

----------------------------------------------------------------------------
(* Dates.  Time is counted in quarter days (6 h) since the epoch: the age   *)
(* divides by 365.25 days = 1461 quarter days, and the floor of the         *)
(* quotient does not see what is below a quarter day.                       *)

QuarterDaysPerYear == 1461

IsLeapYear(y) == (y % 4 = 0 /\ y % 100 # 0) \/ y % 400 = 0

DaysInMonth(y, m) ==
  CASE m \in {1, 3, 5, 7, 8, 10, 12} -> 31
    [] m \in {4, 6, 9, 11} -> 30
    [] OTHER -> IF IsLeapYear(y) THEN 29 ELSE 28

\* Days from 1970-01-01 to the civil date y-m-d
DaysFromCivil(y, m, d) ==
  LET yy == IF m <= 2 THEN y - 1 ELSE y
      era == yy \div 400
      yoe == yy - era * 400
      mp == IF m > 2 THEN m - 3 ELSE m + 9
      doy == ((153 * mp + 2) \div 5) + d - 1
      doe == yoe * 365 + (yoe \div 4) - (yoe \div 100) + doy
  IN era * 146097 + doe - 719468

\* new Date(s) for a date-only ISO string YYYY-MM-DD (UTC midnight); every
\* other string of the model is one Date.parse rejects.
IsIsoDate(s) ==
  /\ Len(s) = 10
  /\ s[5] = "-" /\ s[8] = "-"
  /\ \A i \in {1, 2, 3, 4, 6, 7, 9, 10} : s[i] \in Digits
  /\ LET y == DigitsValue(SubSeq(s, 1, 4))
         m == DigitsValue(SubSeq(s, 6, 7))
         d == DigitsValue(SubSeq(s, 9, 10))
     IN m \in 1..12 /\ d \in 1..DaysInMonth(y, m)

InvalidDate == [valid |-> FALSE]

NewDate(v) ==
  IF IsString(v) /\ IsIsoDate(v.s)
    THEN LET y == DigitsValue(SubSeq(v.s, 1, 4))
             m == DigitsValue(SubSeq(v.s, 6, 7))
             d == DigitsValue(SubSeq(v.s, 9, 10))
         IN [valid |-> TRUE, year |-> y,
             time |-> 4 * DaysFromCivil(y, m, d)]
    ELSE InvalidDate

\* regDate.getTime() and regDate.getFullYear(): NaN for an invalid date
GetTime(date) == IF date.valid THEN Num(date.time) ELSE NaN
GetFullYear(date) == IF date.valid THEN Num(date.year) ELSE NaN

\* The age with a year of 365 days
FloorAgeInCalendarYears(now, t) ==
  IF t.t = "NaN" THEN NaN ELSE Num((now - t.n) \div (4 * 365))

\* Math.floor((now - t) / (1000 * 60 * 60 * 24 * 365.25))
FloorAgeInYears(now, t) ==
  IF t.t = "NaN" THEN NaN ELSE Num((now - t.n) \div QuarterDaysPerYear)

\* An instant of the wall clock, as Date.now() returns it
Instant(y, m, d, quarter) == 4 * DaysFromCivil(y, m, d) + quarter

----------------------------------------------------------------------------
(* The environment table and the hostname *)

\* The prefix with the hyphens left in place
EnvPrefixDotsOnly(hostname) == ToUpperCase(ReplaceAll(hostname, ".", "_"))

\* hostname.replace(/\./g, "_").replace(/-/g, "_").toUpperCase()
EnvPrefix(hostname) ==
  ToUpperCase(ReplaceAll(ReplaceAll(hostname, ".", "_"), "-", "_"))

\* env[key]: undefined for a variable that is not set
EnvGet(env, key) == IF key \in DOMAIN env THEN env[key] ELSE Undefined

\* `${envPrefix}_NAME`
PrefixedKey(prefix, name) == prefix \o <<"_">> \o name

\* env.NAME || env[`${envPrefix}_NAME`] || base: the two variables swapped
EnvOverrideGlobalFirst(env, prefix, name, base) ==
  Or(Or(EnvGet(env, name), EnvGet(env, PrefixedKey(prefix, name))), base)

\* env[`${envPrefix}_NAME`] || env.NAME || base
EnvOverride(env, prefix, name, base) ==
  Or(Or(EnvGet(env, PrefixedKey(prefix, name)), EnvGet(env, name)), base)

\* The list with a production hostname on it
DevHostnamesAndCdn ==
  {<<"l", "o", "c", "a", "l", "h", "o", "s", "t">>, <<"1", "2", "7", ".", "0", ".", "0", ".", "1">>, <<"d", "o", "m", "a", "i", "n", "-", "p", "a", "r", "k", "o", "u", "r", ".", "a", "p", "i", "a", "r", "y", ".", "w", "o", "r", "k", "e", "r", "s", ".", "d", "e", "v">>,
   <<"c", "d", "n", "-", "f", "a", "r", "m", ".", "i", "o">>}

\* Lines 15-19: the hostnames the local file is imported for
DevHostnames ==
  {<<"l", "o", "c", "a", "l", "h", "o", "s", "t">>, <<"1", "2", "7", ".", "0", ".", "0", ".", "1">>, <<"d", "o", "m", "a", "i", "n", "-", "p", "a", "r", "k", "o", "u", "r", ".", "a", "p", "i", "a", "r", "y", ".", "w", "o", "r", "k", "e", "r", "s", ".", "d", "e", "v">>}

----------------------------------------------------------------------------
(* getDomainConfig: the base record *)

\* { domain: hostname, ...v }
WithDomain(hostname, v) == Merge([domain |-> Str(hostname)], OwnProps(v))

\* What getDomainConfig returns, and the sources it read on the way
Returned(config, themes, source) ==
  [config |-> config, allThemes |-> themes, source |-> source]

\* The hardcoded record of the last return
HardcodedDefault(hostname) ==
  [domain |-> Str(hostname),
   mode |-> Str(<<"l", "a", "n", "d", "i", "n", "g">>),
   title |-> Str(<<"P", "r", "e", "m", "i", "u", "m", " ", "D", "o", "m", "a", "i", "n", " ", "F", "o", "r", " ", "S", "a", "l", "e">>),
   description |-> Str(<<"T", "h", "i", "s", " ", "p", "r", "e", "m", "i", "u", "m", " ", "d", "o", "m", "a", "i", "n", " ", "i", "s", " ", "a", "v", "a", "i", "l", "a", "b", "l", "e", " ", "f", "o", "r", " ", "p", "u", "r", "c", "h", "a", "s", "e", ".">>),
   registrationDate |-> Null,
   salePrice |-> Null,
   contactEmail |-> Null,
   accentColor |-> Str(<<"#", "3", "b", "8", "2", "f", "6">>),
   launchDate |-> Null,
   tagline |-> Null,
   features |-> Arr(<< >>),
   socialLinks |-> Obj(NoProps),
   subtitle |-> Null,
   links |-> Arr(<< >>)]

\* The local module: import() throws, or gives a module whose default export
\* is the parsed file.
ImportThrows == [k |-> "throws"]
Module(default) == [k |-> "module", default |-> default]

\* The local branch that returns for a list of presets alone
LocalResultListsOnly(hostname, localModule) ==
  IF /\ localModule.k = "module"
     /\ IsArray(localModule.default)
     /\ Len(localModule.default.items) > 0
    THEN [k |-> "return",
          r |-> Returned(WithDomain(hostname, localModule.default.items[1]),
                         localModule.default, "local")]
    ELSE [k |-> "fallthrough"]

\* Lines 20-49: the result of the local branch once import() has settled;
\* "fallthrough" when the branch returns nothing.
LocalResult(hostname, localModule) ==
  IF localModule.k = "module" /\ Truthy(localModule.default)
    THEN LET themes == localModule.default
         IN IF IsArray(themes) /\ Len(themes.items) > 0
              THEN [k |-> "return",
                    r |-> Returned(WithDomain(hostname, themes.items[1]),
                                   themes, "local")]
              ELSE [k |-> "return",
                    r |-> Returned(WithDomain(hostname, themes),
                                   Undefined, "local")]
    ELSE [k |-> "fallthrough"]

\* JSON.parse of the <PREFIX>_CONFIG texts of the model: the parsed value, or
\* a SyntaxError.
ConfigJsonGood == <<"{", "\"", "m", "o", "d", "e", "\"", ":", "\"", "c", "o", "m", "i", "n", "g", "-", "s", "o", "o", "n", "\"", ",", "\"", "t", "i", "t", "l", "e", "\"", ":", "\"", "E", "n", "v", "\"", "}">>
ConfigJsonNull == <<"n", "u", "l", "l">>
ConfigJsonBad == <<"{", "m", "o", "d", "e", ":">>
JsonParse(text) ==
  CASE text = ConfigJsonGood ->
         [ok |-> TRUE,
          v |-> Obj([mode |-> Str(<<"c", "o", "m", "i", "n", "g", "-", "s", "o", "o", "n">>), title |-> Str(<<"E", "n", "v">>)])]
    [] text = ConfigJsonNull -> [ok |-> TRUE, v |-> Null]
    [] OTHER -> [ok |-> FALSE]

\* Lines 72-125: the <PREFIX>_CONFIG variable, then the hardcoded record
EnvFallback(hostname, env) ==
  LET envPrefix == EnvPrefix(hostname)
      domainEnvConfig == EnvGet(env, PrefixedKey(envPrefix, <<"C", "O", "N", "F", "I", "G">>))
      parsed == JsonParse(domainEnvConfig.s)
  IN IF Truthy(domainEnvConfig) /\ parsed.ok
       THEN Returned(WithDomain(hostname, parsed.v), Undefined, "envConfig")
       ELSE Returned(HardcodedDefault(hostname), Undefined, "default")

\* A KV get: a fault, or the stored JSON value (null for a key not stored)
KvFault == [k |-> "fault"]
KvValue(v) == [k |-> "value", v |-> v]
KvMiss == KvValue(Null)

\* A get whose outcome is not looked at: the next source is read
KvResultGoOn(hostname, outcome, source) == [k |-> "next"]

\* Lines 55-58 and 61-66: what follows a settled get
KvResult(hostname, outcome, source) ==
  IF outcome.k = "fault" THEN [k |-> "caught"]
  ELSE IF Truthy(outcome.v)
    THEN [k |-> "return",
          r |-> Returned(WithDomain(hostname, outcome.v), Undefined, source)]
    ELSE [k |-> "next"]

\* getDomainConfig as a whole: lines 13-126 for one state of the sources
GetDomainConfig(h, e, m, binding, store) ==
  LET local == IF h \in DevHostnames THEN LocalResult(h, m)
               ELSE [k |-> "fallthrough"]
      first == KvResult(h, store.host, "kv")
      second == KvResult(h, store.default, "kvDefault")
  IN IF local.k = "return" THEN local.r
     ELSE IF ~binding THEN EnvFallback(h, e)
     ELSE IF first.k = "return" THEN first.r
     ELSE IF first.k = "caught" THEN EnvFallback(h, e)
     ELSE IF second.k = "return" THEN second.r
     ELSE EnvFallback(h, e)

----------------------------------------------------------------------------
(* getConfig: the theme override, the environment overrides, the derived    *)
(* fields                                                                  *)

\* The override left out: the base record stays the first preset
SelectThemeFirst(hostname, got, param) == got.config

\* Lines 142-153: the preset the themeIndex query parameter selects.  param
\* is url.searchParams.get("themeIndex"): null or a string.
SelectTheme(hostname, got, param) ==
  IF /\ Truthy(got.allThemes)
     /\ Len(got.allThemes.items) > 0
     /\ param # Null
    THEN LET themeIndex == ParseInt(param.s)
         IN IF /\ themeIndex.t = "number"
               /\ themeIndex.n >= 0
               /\ themeIndex.n < Len(got.allThemes.items)
              THEN WithDomain(hostname, got.allThemes.items[themeIndex.n + 1])
              ELSE got.config
    ELSE got.config

\* The test that takes no value for an address
IsIpAddressNever(v) == FALSE

\* /^(\d{1,3}\.){3}\d{1,3}$/.test(v): the test is on String(v)
IsIpAddress(v) ==
  LET parts == Split(ToStringJS(v), ".")
  IN /\ Len(parts) = 4
     /\ \A i \in 1..4 :
          /\ Len(parts[i]) \in 1..3
          /\ \A j \in 1..Len(parts[i]) : parts[i][j] \in Digits

\* Lines 182-188.  domainTitle.split is a TypeError when domainTitle is no
\* string.
SplitThrows(domainTitle) ==
  Truthy(domainTitle) /\ ~IsIpAddress(domainTitle) /\ ~IsString(domainTitle)

\* The extension taken from the label after the first dot
DomainExtensionSecondLabel(domainTitle) ==
  IF Truthy(domainTitle) /\ ~IsIpAddress(domainTitle)
    THEN LET parts == Split(domainTitle.s, ".")
         IN IF Len(parts) > 1 THEN Str(<<".">> \o parts[2])
            ELSE Str(<< >>)
    ELSE Str(<< >>)

DomainExtension(domainTitle) ==
  IF Truthy(domainTitle) /\ ~IsIpAddress(domainTitle)
    THEN LET parts == Split(domainTitle.s, ".")
         IN IF Len(parts) > 1 THEN Str(<<".">> \o parts[Len(parts)])
            ELSE Str(<< >>)
    ELSE Str(<< >>)

\* Lines 190-196.  now is Date.now().
DomainAgeYears(registrationDate, now) ==
  IF Truthy(registrationDate)
    THEN LET regDate == NewDate(registrationDate)
             ageInYears == FloorAgeInYears(now, GetTime(regDate))
         IN Str(ToStringJS(ageInYears) \o <<"+">>)
    ELSE Str(<< >>)

DomainRegistration(registrationDate) ==
  IF Truthy(registrationDate)
    THEN LET regDate == NewDate(registrationDate)
         IN Str(<<"R", "e", "g", "i", "s", "t", "e", "r", "e", "d", " ", "i", "n", " ">> \o ToStringJS(GetFullYear(regDate)))
    ELSE Str(<< >>)

\* The derived field always recomputed, as before the stored value was read
SuppliedIgnored(domainConfig, name, computed) == computed

\* Lines 208-210: domainConfig.name || computed
Supplied(domainConfig, name, computed) == Or(Get(domainConfig, name), computed)

\* The structured field dropped: always the empty list or object
StructuredAlwaysEmpty(domainConfig, name, empty) == empty

\* Lines 229-234: domainConfig.name || [] (|| {} for socialLinks)
Structured(domainConfig, name, empty) == Or(Get(domainConfig, name), empty)

\* Lines 163-166: the registration date the derived fields are computed from
ResolvedRegistrationDate(hostname, env, domainConfig) ==
  EnvOverride(env, EnvPrefix(hostname), <<"R", "E", "G", "I", "S", "T", "R", "A", "T", "I", "O", "N", "_", "D", "A", "T", "E">>,
              Get(domainConfig, "registrationDate"))

\* Lines 158-242 after the base record is chosen: the final record, or the
\* TypeError of line 184.  now is read only under `if (registrationDate)`.
FinalConfig(hostname, env, domainConfig, now) ==
  LET envPrefix == EnvPrefix(hostname)
      registrationDate == ResolvedRegistrationDate(hostname, env, domainConfig)
      domain ==
        Or(EnvOverride(env, envPrefix, <<"D", "O", "M", "A", "I", "N">>, Get(domainConfig, "domain")),
           Str(hostname))
      domainTitle ==
        Or(EnvOverride(env, envPrefix, <<"D", "O", "M", "A", "I", "N", "_", "T", "I", "T", "L", "E">>,
                       Get(domainConfig, "domainTitle")),
           domain)
  IN IF SplitThrows(domainTitle) THEN [threw |-> TRUE]
     ELSE
      [threw |-> FALSE,
       config |->
        [domain |-> domain,
         domainTitle |-> domainTitle,
         mode |->
           Or(EnvOverride(env, envPrefix, <<"M", "O", "D", "E">>, Get(domainConfig, "mode")),
              Str(<<"p", "a", "r", "k", "i", "n", "g">>)),
         title |->
           EnvOverride(env, envPrefix, <<"T", "I", "T", "L", "E">>, Get(domainConfig, "title")),
         description |->
           EnvOverride(env, envPrefix, <<"D", "E", "S", "C", "R", "I", "P", "T", "I", "O", "N">>,
                       Get(domainConfig, "description")),
         domainAgeYears |->
           Supplied(domainConfig, "domainAgeYears",
                    DomainAgeYears(registrationDate, now)),
         domainRegistration |->
           Supplied(domainConfig, "domainRegistration",
                    DomainRegistration(registrationDate)),
         domainExtension |->
           Supplied(domainConfig, "domainExtension",
                    DomainExtension(domainTitle)),
         salePrice |->
           EnvOverride(env, envPrefix, <<"S", "A", "L", "E", "_", "P", "R", "I", "C", "E">>,
                       Get(domainConfig, "salePrice")),
         contactEmail |->
           EnvOverride(env, envPrefix, <<"C", "O", "N", "T", "A", "C", "T", "_", "E", "M", "A", "I", "L">>,
                       Get(domainConfig, "contactEmail")),
         accentColor |->
           EnvOverride(env, envPrefix, <<"A", "C", "C", "E", "N", "T", "_", "C", "O", "L", "O", "R">>,
                       Get(domainConfig, "accentColor")),
         launchDate |->
           EnvOverride(env, envPrefix, <<"L", "A", "U", "N", "C", "H", "_", "D", "A", "T", "E">>,
                       Get(domainConfig, "launchDate")),
         tagline |->
           EnvOverride(env, envPrefix, <<"T", "A", "G", "L", "I", "N", "E">>,
                       Get(domainConfig, "tagline")),
         features |-> Structured(domainConfig, "features", Arr(<< >>)),
         socialLinks |-> Structured(domainConfig, "socialLinks", Obj(NoProps)),
         subtitle |->
           EnvOverride(env, envPrefix, <<"S", "U", "B", "T", "I", "T", "L", "E">>,
                       Get(domainConfig, "subtitle")),
         links |-> Structured(domainConfig, "links", Arr(<< >>)),
         footerText |->
           EnvOverride(env, envPrefix, <<"F", "O", "O", "T", "E", "R", "_", "T", "E", "X", "T">>,
                       Get(domainConfig, "footerText")),
         showCredit |->
           IF Get(domainConfig, "showCredit") # Undefined
             THEN Get(domainConfig, "showCredit")
             ELSE Bool(TRUE)]]

----------------------------------------------------------------------------
(* fetch: the dispatch on the mode, the renderers, the response *)

\* The dispatch without its landing branch
DispatchTwoModes(cfg) ==
  IF cfg.mode = Str(<<"c", "o", "m", "i", "n", "g", "-", "s", "o", "o", "n">>) THEN "coming-soon" ELSE "parking"

\* Lines 267-274: the renderer the mode selects
Dispatch(cfg) ==
  IF cfg.mode = Str(<<"c", "o", "m", "i", "n", "g", "-", "s", "o", "o", "n">>) THEN "coming-soon"
  ELSE IF cfg.mode = Str(<<"l", "a", "n", "d", "i", "n", "g">>) THEN "landing"
  ELSE "parking"

\* v.map(...) after the guard `!v || v.length === 0`: a TypeError when v is
\* truthy and no array (it has no map)
MapThrows(v) == Truthy(v) /\ ~IsArray(v)

\* renderParkingScripts: cfg.contactEmail.split("@") is a TypeError when the
\* address is truthy and no string
ParkingThrows(cfg) == Truthy(cfg.contactEmail) /\ ~IsString(cfg.contactEmail)

\* renderFeatures: cfg.features.map
ComingSoonThrows(cfg) == MapThrows(cfg.features)

\* renderLinks: links.map
LandingThrows(cfg) == MapThrows(cfg.links)

RendererThrows(template, cfg) ==
  CASE template = "coming-soon" -> ComingSoonThrows(cfg)
    [] template = "landing" -> LandingThrows(cfg)
    [] OTHER -> ParkingThrows(cfg)

\* The footer of a document: whether the block is there, the text of its
\* paragraph, whether the credit line follows
NoFooter == [present |-> FALSE, text |-> << >>, credit |-> FALSE]

\* The sentence an absent footerText is replaced by
ParkingFooterDefault == <<"T", "h", "i", "s", " ", "p", "r", "e", "m", "i", "u", "m", " ", "d", "o", "m", "a", "i", "n", " ", "i", "s", " ", "a", "v", "a", "i", "l", "a", "b", "l", "e", " ", "f", "o", "r", " ", "p", "u", "r", "c", "h", "a", "s", "e">>
StayTuned == <<"S", "t", "a", "y", " ", "t", "u", "n", "e", "d", " ", "f", "o", "r", " ", "o", "u", "r", " ", "l", "a", "u", "n", "c", "h">>
SomethingExciting == <<"S", "o", "m", "e", "t", "h", "i", "n", "g", " ", "e", "x", "c", "i", "t", "i", "n", "g", " ", "i", "s", " ", "c", "o", "m", "i", "n", "g">>

\* renderFooter(footerText, showCredit = true): the default stands in for
\* an argument that is undefined or not passed
RenderFooter(footerText, showCredit) ==
  IF footerText = Str(<< >>) THEN NoFooter
  ELSE [present |-> TRUE,
        text |-> ToStringJS(footerText),
        credit |-> Truthy(IF showCredit = Undefined THEN Bool(TRUE)
                          ELSE showCredit)]

\* renderParkingContent: renderFooter is called with the text alone
ParkingFooter(cfg) ==
  RenderFooter(IF cfg.footerText # Undefined THEN cfg.footerText
               ELSE Str(ParkingFooterDefault),
               Undefined)

\* renderLandingContent: renderFooter is called with the text alone
LandingFooter(cfg) ==
  RenderFooter(IF cfg.footerText # Undefined THEN cfg.footerText
               ELSE cfg.domainTitle,
               Undefined)

\* The coming-soon footer that takes no notice of the launchDate
ComingSoonFooterPlain(cfg) ==
  [present |-> TRUE,
   text |-> ToStringJS(IF cfg.footerText # Undefined THEN cfg.footerText
                       ELSE Str(SomethingExciting)),
   credit |-> FALSE]

\* renderComingSoonContent: the footer block is written in place, with no
\* test on the text and no credit line
ComingSoonFooter(cfg) ==
  [present |-> TRUE,
   text |-> ToStringJS(IF cfg.footerText # Undefined THEN cfg.footerText
                       ELSE IF Truthy(cfg.launchDate) THEN Str(StayTuned)
                       ELSE Str(SomethingExciting)),
   credit |-> FALSE]

Footer(template, cfg) ==
  CASE template = "coming-soon" -> ComingSoonFooter(cfg)
    [] template = "landing" -> LandingFooter(cfg)
    [] OTHER -> ParkingFooter(cfg)

\* renderCountdownScript: the script is written when cfg.launchDate is
\* truthy, with the date interpolated into new Date('...')
RenderCountdownScript(cfg) ==
  IF Truthy(cfg.launchDate)
    THEN [countdown |-> TRUE, launchDate |-> Str(ToStringJS(cfg.launchDate))]
    ELSE [countdown |-> FALSE, launchDate |-> Undefined]
NoScript == [countdown |-> FALSE, launchDate |-> Undefined]

\* generateComingSoonHTML alone carries the countdown script
Scripts(template, cfg) ==
  IF template = "coming-soon" THEN RenderCountdownScript(cfg) ELSE NoScript

\* The contact link of the parking page and the two halves of the address
\* that renderParkingScripts writes between quotes: the texts of
\* `${cfg.contactEmail.split("@")[0]}` and `${cfg.contactEmail.split("@")[1]}`,
\* the second 'undefined' for an address with no @
NoContact == [link |-> FALSE, href |-> << >>, user |-> << >>, domain |-> << >>]
RenderContact(cfg) ==
  IF Truthy(cfg.contactEmail)
    THEN LET parts == Split(cfg.contactEmail.s, "@")
         IN [link |-> TRUE,
             href |-> <<"#">>,
             user |-> parts[1],
             domain |-> IF Len(parts) > 1 THEN parts[2] ELSE <<"u", "n", "d", "e", "f", "i", "n", "e", "d">>]
    ELSE NoContact

\* generateParkingHTML alone carries the contact link and its script
Contact(template, cfg) ==
  IF template = "parking" THEN RenderContact(cfg) ELSE NoContact

\* renderThemeSwitcher(allThemes): a <select> with one option per preset,
\* valued 0 .. length - 1, or nothing
NoSwitcher == [present |-> FALSE, options |-> 0]
RenderThemeSwitcher(allThemes) ==
  IF ~Truthy(allThemes) \/ Len(allThemes.items) = 0 THEN NoSwitcher
  ELSE [present |-> TRUE, options |-> Len(allThemes.items)]

\* renderBase: window.__ALL_THEMES__ is written when allThemes is truthy
EmbeddedThemes(allThemes) ==
  IF Truthy(allThemes) THEN allThemes ELSE Undefined

\* Lines 276-283: the response around the rendered document.  allThemes is
\* what getConfig returned beside the record.
Response(hostname, cfg, template, allThemes) ==
  [contentType |-> "text/html;charset=UTF-8",
   cacheControl |-> "public, max-age=3600",
   servedDomain |-> hostname,
   pageMode |-> cfg.mode,
   body |-> [template |-> template,
             footer |-> Footer(template, cfg),
             script |-> Scripts(template, cfg),
             contact |-> Contact(template, cfg),
             switcher |-> RenderThemeSwitcher(allThemes),
             allThemes |-> EmbeddedThemes(allThemes)]]

\* The handler as a whole, lines 256-285, for one state of the sources and
\* one reading n of the clock: what it returns, or that it threw
Threw == [threw |-> TRUE]
Serve(h, param, e, m, binding, store, n) ==
  LET resolved == GetDomainConfig(h, e, m, binding, store)
      r == FinalConfig(h, e, SelectTheme(h, resolved, param), n)
  IN IF r.threw THEN Threw
     ELSE LET template == Dispatch(r.config)
          IN IF RendererThrows(template, r.config) THEN Threw
             ELSE [threw |-> FALSE,
                   config |-> r.config,
                   response |-> Response(h, r.config, template,
                                         resolved.allThemes)]

----------------------------------------------------------------------------
(* The countdown script of the coming-soon page, in the browser.  The clock *)
(* is kept as the milliseconds the launch instant is ahead of it, so that   *)
(* distance = launchDate - now is that number for a date that parses and    *)
(* NaN for one that does not.                                               *)

MsPerSecond == 1000
MsPerMinute == 60000
MsPerHour == 3600000
MsPerDay == 86400000

\* n.toString().padStart(2, "0")
PadStart2(s) == IF Len(s) < 2 THEN <<"0">> \o s ELSE s

\* launchDate - now, with now the clock that is `ahead` ms before the launch
Distance(launchDate, ahead) ==
  IF GetTime(NewDate(launchDate)) = NaN THEN NaN ELSE Num(ahead)

\* Math.floor(a / b) of a distance
FloorDiv(a, b) == IF a = NaN THEN NaN ELSE Num(a.n \div b)

\* The remainder left out: the whole distance divided
FloorModDivWhole(a, m, b) == IF a = NaN THEN NaN ELSE Num(a.n \div b)

\* Math.floor((a % m) / b) of a distance
FloorModDiv(a, m, b) == IF a = NaN THEN NaN ELSE Num((a.n % m) \div b)

\* The four digit elements as renderCountdown writes them
InitialDigits ==
  [days |-> <<"0", "0">>, hours |-> <<"0", "0">>, minutes |-> <<"0", "0">>, seconds |-> <<"0", "0">>]

\* The digit elements once the live message has replaced them
NoDigits ==
  [days |-> << >>, hours |-> << >>, minutes |-> << >>, seconds |-> << >>]

\* The document before its script has run.  before is what was displayed
\* when the last run of updateCountdown began.
NoPage ==
  [loaded |-> FALSE, display |-> "none", before |-> "none",
   digits |-> InitialDigits, ahead |-> 0, ticks |-> 0, errors |-> 0]

\* updateCountdown that writes the digits back whenever distance is not
\* negative
UpdateCountdownRedraw(page, distance) ==
  IF distance # NaN /\ distance.n < 0
    THEN [page EXCEPT !.display = "live", !.digits = NoDigits]
    ELSE [page EXCEPT
            !.display = "digits",
            !.digits =
              [days |-> PadStart2(ToStringJS(FloorDiv(distance, MsPerDay))),
               hours |->
                 PadStart2(ToStringJS(FloorModDiv(distance, MsPerDay,
                                                  MsPerHour))),
               minutes |->
                 PadStart2(ToStringJS(FloorModDiv(distance, MsPerHour,
                                                  MsPerMinute))),
               seconds |->
                 PadStart2(ToStringJS(FloorModDiv(distance, MsPerMinute,
                                                  MsPerSecond)))]]

\* updateCountdown.  A negative distance replaces the content of #countdown
\* by the live message, which takes the four digit elements out of the
\* document; a later run with a distance that is not negative finds
\* getElementById("days") null and ends with a TypeError.
UpdateCountdown(page, distance) ==
  IF distance # NaN /\ distance.n < 0
    THEN [page EXCEPT !.display = "live", !.digits = NoDigits]
  ELSE IF page.display = "live"
    THEN [page EXCEPT !.errors = 1]
  ELSE [page EXCEPT
          !.display = "digits",
          !.digits =
            [days |-> PadStart2(ToStringJS(FloorDiv(distance, MsPerDay))),
             hours |->
               PadStart2(ToStringJS(FloorModDiv(distance, MsPerDay,
                                                MsPerHour))),
             minutes |->
               PadStart2(ToStringJS(FloorModDiv(distance, MsPerHour,
                                                MsPerMinute))),
             seconds |->
               PadStart2(ToStringJS(FloorModDiv(distance, MsPerMinute,
                                                MsPerSecond)))]]


----------------------------------------------------------------------------
(* The script block of renderBase in the browser: the light/dark toggle,    *)
(* the preset switcher, then the scripts of the template, all in one        *)
(* <script> element                                                         *)

\* A quote inside a text written between quotes ends the literal early; with
\* the texts of the model what follows is no JavaScript, the block has a
\* syntax error and none of it runs.
HasQuote(s) == \E i \in 1..Len(s) : s[i] = "'"
ScriptParses(body) ==
  /\ ~HasQuote(body.contact.user)
  /\ ~HasQuote(body.contact.domain)
  /\ body.script.countdown => ~HasQuote(body.script.launchDate.s)

\* localStorage of the origin: getItem gives null for a key never set
NoStorage == [theme |-> Null, devThemeIndex |-> Null]

\* No document
NoDoc ==
  [loaded |-> FALSE, ran |-> FALSE, dark |-> TRUE, darkIconHidden |-> TRUE,
   lightIconHidden |-> TRUE, selected |-> << >>, href |-> << >>,
   before |-> "none"]

\* The document as the markup alone gives it: <html class="dark">, both
\* icons with class hidden, the first option of the <select> selected, the
\* contact link with href="#"
Markup(body) ==
  [loaded |-> TRUE, ran |-> FALSE, dark |-> TRUE, darkIconHidden |-> TRUE,
   lightIconHidden |-> TRUE,
   selected |-> IF body.switcher.present THEN <<"0">> ELSE << >>,
   href |-> body.contact.href,
   before |-> "none"]

\* themeSwitcher.value = v: the option whose value is v becomes the selected
\* one; with no such option none is selected and the value reads ''
OptionValues(switcher) == {NatToString(i) : i \in 0..(switcher.options - 1)}
SetValue(switcher, v) == IF v \in OptionValues(switcher) THEN v ELSE << >>

\* base.js lines 131-134: the index the switcher is set to
CurrentThemeIndex(storage, urlThemeIndex) ==
  LET savedThemeIndex == Or(storage.devThemeIndex, Str(<<"0">>))
  IN IF urlThemeIndex # Null THEN urlThemeIndex ELSE savedThemeIndex

\* The script block run at load: base.js lines 99-148, then ${scripts}
LoadDocument(body, storage, urlThemeIndex) ==
  IF ~ScriptParses(body) THEN Markup(body)
  ELSE
    LET currentTheme == Or(storage.theme, Str(<<"d", "a", "r", "k">>))
        isDark == currentTheme = Str(<<"d", "a", "r", "k">>)
        hasSwitcher == body.switcher.present /\ Truthy(body.allThemes)
    IN [loaded |-> TRUE,
        ran |-> TRUE,
        dark |-> isDark,
        darkIconHidden |-> isDark,
        lightIconHidden |-> ~isDark,
        selected |->
          IF hasSwitcher
            THEN SetValue(body.switcher,
                          CurrentThemeIndex(storage, urlThemeIndex).s)
            ELSE Markup(body).selected,
        href |->
          IF body.contact.link
            THEN <<"m", "a", "i", "l", "t", "o", ":">> \o body.contact.user \o <<"@">>
                   \o body.contact.domain
            ELSE body.contact.href,
        before |-> "none"]

\* base.js lines 114-125: the click listener of #theme-toggle
Toggle(b) ==
  LET icons == [b EXCEPT !.doc.darkIconHidden = ~b.doc.darkIconHidden,
                         !.doc.lightIconHidden = ~b.doc.lightIconHidden]
  IN IF b.doc.dark
       THEN [icons EXCEPT !.doc.dark = FALSE,
                          !.storage.theme = Str(<<"l", "i", "g", "h", "t">>)]
       ELSE [icons EXCEPT !.doc.dark = TRUE,
                          !.storage.theme = Str(<<"d", "a", "r", "k">>)]

----------------------------------------------------------------------------
(* The requests of the model *)

MaxPresets == 2
MaxThemeIndex == 2
MaxTicks == 3
MaxLoads == 2
MaxClicks == 2

Hostnames ==
  {<<"l", "o", "c", "a", "l", "h", "o", "s", "t">>, <<"1", "2", "7", ".", "0", ".", "0", ".", "1">>, <<"c", "d", "n", "-", "f", "a", "r", "m", ".", "i", "o">>, <<"m", "y", "-", "c", "o", "o", "l", "-", "s", "i", "t", "e", ".", "c", "o", "m">>}

\* Stored records: what a KV key, the local file or a preset may hold
RecFull ==
  Obj([domain |-> Str(<<"b", ".", "d", "e", "v">>),
       domainTitle |-> Str(<<"B", "a", "s", "e", ".", "d", "e", "v">>),
       mode |-> Str(<<"c", "o", "m", "i", "n", "g", "-", "s", "o", "o", "n">>),
       title |-> Str(<<"b", "t">>),
       description |-> Str(<<"b", "d">>),
       salePrice |-> Str(<<"$", "9">>),
       contactEmail |-> Str(<<"b", "@", "b", ".", "d", "e", "v">>),
       accentColor |-> Str(<<"#", "1", "1", "1", "1", "1", "1">>),
       launchDate |-> Str(<<"2", "0", "3", "0", "-", "0", "1", "-", "0", "1">>),
       tagline |-> Str(<<"b", "g">>),
       subtitle |-> Str(<<"b", "s">>),
       footerText |-> Str(<<"b", "f">>),
       registrationDate |-> Str(<<"2", "0", "1", "0", "-", "0", "1", "-", "1", "5">>),
       features |-> Arr(<<Str(<<"f">>)>>),
       socialLinks |-> Obj([github |-> Str(<<"u">>)]),
       links |-> Arr(<<Obj([title |-> Str(<<"l">>), url |-> Str(<<"u">>)])>>),
       showCredit |-> Bool(FALSE)])
RecEmpty == Obj(NoProps)
RecFalsy ==
  Obj([domain |-> Str(<< >>),
       domainTitle |-> Str(<< >>),
       mode |-> Str(<< >>),
       title |-> Str(<< >>),
       description |-> Null,
       salePrice |-> Num(0),
       contactEmail |-> Bool(FALSE),
       footerText |-> Str(<< >>),
       registrationDate |-> Str(<< >>),
       domainAgeYears |-> Str(<< >>),
       domainRegistration |-> Null,
       domainExtension |-> Str(<< >>),
       features |-> Null])
RecDerived ==
  Obj([mode |-> Str(<<"p", "a", "r", "k", "i", "n", "g">>),
       registrationDate |-> Str(<<"2", "0", "1", "0", "-", "0", "1", "-", "1", "5">>),
       domainAgeYears |-> Str(<<"2", "0", "+">>),
       domainRegistration |-> Str(<<"E", "s", "t", ".", " ", "1", "9", "9", "9">>),
       domainExtension |-> Str(<<".", "x", "y", "z">>)])
RecBogus == Obj([mode |-> Str(<<"b", "o", "g", "u", "s">>), registrationDate |-> Str(<<"s", "o", "o", "n">>)])
RecBadTitle == Obj([domainTitle |-> Num(42)])
RecBadEmail == Obj([mode |-> Str(<<"p", "a", "r", "k", "i", "n", "g">>), contactEmail |-> Num(5)])
RecBadFeatures ==
  Obj([mode |-> Str(<<"c", "o", "m", "i", "n", "g", "-", "s", "o", "o", "n">>), features |-> Obj(NoProps)])
RecBadLinks == Obj([mode |-> Str(<<"l", "a", "n", "d", "i", "n", "g">>), links |-> Str(<<"x">>)])
RecQuiet == Obj([mode |-> Str(<<"c", "o", "m", "i", "n", "g", "-", "s", "o", "o", "n">>), footerText |-> Str(<< >>)])
RecLaunch ==
  Obj([mode |-> Str(<<"c", "o", "m", "i", "n", "g", "-", "s", "o", "o", "n">>), launchDate |-> Str(<<"2", "0", "3", "0", "-", "0", "6", "-", "0", "1">>)])
RecNumeric == Obj([domainTitle |-> Str(<<"1", ".", "2", ".", "3", ".", "4", "4", "4", "4">>)])

\* Parking records with a contact address: one @, a quote in the local
\* part, no @, two @
ContactEmails ==
  {<<"s", "a", "l", "e", "s", "@", "c", "d", "n", "-", "f", "a", "r", "m", ".", "i", "o">>, <<"o", "'", "b", "r", "i", "e", "n", "@", "c", "d", "n", "-", "f", "a", "r", "m", ".", "i", "o">>, <<"s", "a", "l", "e", "s">>, <<"a", "@", "b", "@", "c", ".", "i", "o">>}
RecContact(e) == Obj([mode |-> Str(<<"p", "a", "r", "k", "i", "n", "g">>), contactEmail |-> Str(e)])

StoredValues ==
  {RecFull, RecEmpty, RecFalsy, RecDerived, RecBogus, RecBadTitle,
   RecBadEmail, RecBadFeatures, RecBadLinks, RecQuiet, RecLaunch, RecNumeric,
   Num(5)}

\* The i-th preset of the local file
PresetModes == <<<<"p", "a", "r", "k", "i", "n", "g">>, <<"c", "o", "m", "i", "n", "g", "-", "s", "o", "o", "n">>, <<"l", "a", "n", "d", "i", "n", "g">>>>
Preset(i) ==
  Obj([name |-> Str(<<"T", "h", "e", "m", "e", " ">> \o NatToString(i)),
       mode |-> Str(PresetModes[(i % 3) + 1]),
       title |-> Str(<<"T">> \o NatToString(i))])
Presets(n) == Arr([i \in 1..n |-> Preset(i - 1)])

LocalModules ==
  {ImportThrows, Module(Undefined), Module(Null), Module(Num(0)),
   Module(Num(5)), Module(Arr(<< >>)), Module(RecFull)}
    \cup {Module(Presets(n)) : n \in 1..MaxPresets}

ThemeIndexParams ==
  {Null, Str(<<"a", "b", "c">>), Str(<<"1", "x">>)}
    \cup {Str(IntToString(i)) : i \in (-1)..MaxThemeIndex}

\* The scalar fields and the names of their environment variables
EnvName ==
  [domain |-> <<"D", "O", "M", "A", "I", "N">>,
   domainTitle |-> <<"D", "O", "M", "A", "I", "N", "_", "T", "I", "T", "L", "E">>,
   mode |-> <<"M", "O", "D", "E">>,
   title |-> <<"T", "I", "T", "L", "E">>,
   description |-> <<"D", "E", "S", "C", "R", "I", "P", "T", "I", "O", "N">>,
   salePrice |-> <<"S", "A", "L", "E", "_", "P", "R", "I", "C", "E">>,
   contactEmail |-> <<"C", "O", "N", "T", "A", "C", "T", "_", "E", "M", "A", "I", "L">>,
   accentColor |-> <<"A", "C", "C", "E", "N", "T", "_", "C", "O", "L", "O", "R">>,
   launchDate |-> <<"L", "A", "U", "N", "C", "H", "_", "D", "A", "T", "E">>,
   tagline |-> <<"T", "A", "G", "L", "I", "N", "E">>,
   subtitle |-> <<"S", "U", "B", "T", "I", "T", "L", "E">>,
   footerText |-> <<"F", "O", "O", "T", "E", "R", "_", "T", "E", "X", "T">>,
   registrationDate |-> <<"R", "E", "G", "I", "S", "T", "R", "A", "T", "I", "O", "N", "_", "D", "A", "T", "E">>]
ScalarFields == DOMAIN EnvName

\* The values a per-domain and a global variable of a field take
PerDomainValue ==
  [f \in ScalarFields |->
    CASE f = "domain" -> <<"p", ".", "i", "o">>
      [] f = "domainTitle" -> <<"1", "0", ".", "0", ".", "0", ".", "1">>
      [] f = "mode" -> <<"l", "a", "n", "d", "i", "n", "g">>
      [] f = "registrationDate" -> <<"2", "0", "1", "5", "-", "0", "6", "-", "0", "1">>
      [] f = "contactEmail" -> <<"p", "@", "p", ".", "i", "o">>
      [] OTHER -> <<"p", "v">>]
GlobalValue ==
  [f \in ScalarFields |->
    CASE f = "domain" -> <<"g", "l", "o", "b", "a", "l">>
      [] f = "domainTitle" -> <<"G", ".", "e", "x", "a", "m", "p", "l", "e", ".", "o", "r", "g">>
      [] f = "mode" -> <<"p", "a", "r", "k", "i", "n", "g">>
      [] f = "registrationDate" -> <<"s", "o", "o", "n">>
      [] f = "contactEmail" -> <<"g", "@", "g", ".", "i", "o">>
      [] OTHER -> <<"g", "v">>]

\* An environment table: the variables that are set, each a string
Var(key, v) == IF v = Undefined THEN NoProps ELSE [k \in {key} |-> v]
FieldEnv(hostname, f, p, g) ==
  Merge(Var(PrefixedKey(EnvPrefix(hostname), EnvName[f]), p),
        Var(EnvName[f], g))
ConfigEnv(hostname, c) == Var(PrefixedKey(EnvPrefix(hostname), <<"C", "O", "N", "F", "I", "G">>), c)

ConfigTexts ==
  {Undefined, Str(<< >>), Str(ConfigJsonBad), Str(ConfigJsonGood),
   Str(ConfigJsonNull)}

\* Date.now() at the requests of the model
NowInstants ==
  {Instant(2025, 6, 1, 0), Instant(2025, 1, 14, 2), Instant(2025, 1, 14, 3),
   Instant(2009, 12, 31, 2)}

\* How far ahead of the browser clock the launch is when the page loads
LoadAhead == {MsPerHour, 90061500, 1500, -1}

\* What the clock has moved by at a run of the interval: a second, or back
\* by two when the clock was set back
ClockSteps == {1000, -2000}

----------------------------------------------------------------------------
(* One request *)

VARIABLES
  hostname,         \* url.hostname of the request
  themeIndexParam,  \* url.searchParams.get("themeIndex")
  env,              \* the environment table
  kvBinding,        \* whether env.DOMAIN_CONFIGS is bound
  kv,               \* what get(hostname) and get("_default") settle with
  localModule,      \* what import() of the local file settles with
  pc,               \* where the handler is
  got,              \* what getDomainConfig returned
  consulted,        \* the sources read so far, in order
  domainConfig,     \* the base record of getConfig
  now,              \* Date.now(), once read
  cfg,              \* the record getConfig returned
  rendered,         \* the renderers called
  response,         \* the response of fetch
  page,             \* the countdown of the document in the browser
  browser,          \* the browser: localStorage, the document, the clicks
  kvStore,          \* DOMAIN_CONFIGS by key, under requests side by side
  requests          \* the requests that run side by side

vars ==
  <<hostname, themeIndexParam, env, kvBinding, kv, localModule, pc, got,
    consulted, domainConfig, now, cfg, rendered, response, page, browser,
    kvStore, requests>>

inputs == <<hostname, themeIndexParam, env, kvBinding, kv, localModule>>

\* What a request on its own, and a browser, leave alone
sideBySide == <<kvStore, requests>>

NoResult == [config |-> NoProps, allThemes |-> Undefined, source |-> "none"]
NoResponse ==
  [body |-> [template |-> "none", footer |-> NoFooter, script |-> NoScript,
             contact |-> NoContact, switcher |-> NoSwitcher,
             allThemes |-> Undefined]]

\* A browser that has stored nothing and shows no document
NoBrowser ==
  [storage |-> NoStorage, doc |-> NoDoc, loads |-> 0, clicks |-> 0]

\* Whether a settled source supplies the base record
LocalSupplies(h, m) == h \in DevHostnames /\ LocalResult(h, m).k = "return"
KvSupplies(o) == o.k = "value" /\ Truthy(o.v)

\* The requests of the model.  A source below the one that supplies the
\* base record is never read and is left at its empty state.  The requests
\* come in two families: any state of the sources under a table with no
\* field variable, and one stored value under any pair of field variables.
SourceRequest ==
  /\ hostname \in Hostnames
  /\ localModule \in LocalModules
  /\ hostname \notin DevHostnames => localModule = ImportThrows
  /\ kvBinding \in BOOLEAN
  /\ kv \in [host : {KvFault, KvMiss, KvValue(Num(0)), KvValue(RecFull),
                     KvValue(Num(5))},
             default : {KvFault, KvMiss, KvValue(Num(0)), KvValue(RecDerived)}]
  /\ LocalSupplies(hostname, localModule) => kvBinding
  /\ (LocalSupplies(hostname, localModule) \/ ~kvBinding)
       => kv = [host |-> KvMiss, default |-> KvMiss]
  /\ KvSupplies(kv.host) => kv.default = KvMiss
  /\ \E c \in ConfigTexts :
       /\ (\/ LocalSupplies(hostname, localModule)
           \/ KvSupplies(kv.host)
           \/ KvSupplies(kv.default)) => c = Undefined
       /\ env = ConfigEnv(hostname, c)
  /\ themeIndexParam \in ThemeIndexParams
  /\ themeIndexParam # Null =>
       \/ LocalSupplies(hostname, localModule)
            /\ IsArray(localModule.default)
       \/ hostname \notin DevHostnames /\ KvSupplies(kv.host)

FieldRequest ==
  /\ hostname \in Hostnames
  /\ localModule = ImportThrows
  /\ kvBinding = TRUE
  /\ \E v \in StoredValues \cup {Null} :
       kv = [host |-> KvValue(v), default |-> KvMiss]
  /\ \E f \in ScalarFields :
       \E p \in {Undefined, Str(<< >>), Str(PerDomainValue[f])} :
         \E g \in {Undefined, Str(<< >>), Str(GlobalValue[f])} :
           env = FieldEnv(hostname, f, p, g)
  /\ themeIndexParam = Null

\* The handler is entered and no document is there yet
AtEntry ==
  /\ pc = "fetch"
  /\ got = NoResult
  /\ consulted = << >>
  /\ domainConfig = NoProps
  /\ now = Undefined
  /\ cfg = NoProps
  /\ rendered = << >>
  /\ response = NoResponse
  /\ page = NoPage

\* No requests side by side
Alone ==
  /\ kvStore = << >>
  /\ requests = << >>

Init ==
  /\ SourceRequest \/ FieldRequest
  /\ AtEntry
  /\ browser = NoBrowser
  /\ Alone

\* The KV gets that are issued and not settled: the handler waits at the
\* await of line 55 or at that of line 61
InFlight ==
  CASE pc = "kvGet" -> {"kv"}
    [] pc = "kvGetDefault" -> {"kvDefault"}
    [] OTHER -> {}

\* getDomainConfig returns r to getConfig
Return(r) ==
  /\ got' = r
  /\ pc' = "getConfig"

\* Lines 72-125 run to the return
Fallback(read) ==
  LET r == EnvFallback(hostname, env)
  IN /\ Return(r)
     /\ consulted' =
          read \o (IF r.source = "default" THEN <<"envConfig", "default">>
                   ELSE <<"envConfig">>)

\* Line 53 on: the first KV get is issued when the binding is there
AfterLocal(read) ==
  IF kvBinding
    THEN /\ pc' = "kvGet"
         /\ consulted' = read \o <<"kv">>
         /\ got' = got
    ELSE Fallback(read)

\* fetch calls getConfig, getConfig calls getDomainConfig, which runs to its
\* first await
FetchStart ==
  /\ pc = "fetch"
  /\ IF hostname \in DevHostnames
       THEN /\ pc' = "import"
            /\ consulted' = <<"local">>
            /\ got' = got
       ELSE AfterLocal(<< >>)
  /\ UNCHANGED <<inputs, domainConfig, now, cfg, rendered, response, page,
                 browser,
                 sideBySide>>

\* import() has settled
ImportSettled ==
  /\ pc = "import"
  /\ LET res == LocalResult(hostname, localModule)
     IN IF res.k = "return"
          THEN Return(res.r) /\ UNCHANGED consulted
          ELSE AfterLocal(consulted)
  /\ UNCHANGED <<inputs, domainConfig, now, cfg, rendered, response, page,
                 browser,
                 sideBySide>>

\* get(hostname) has settled
KvGetSettled ==
  /\ pc = "kvGet"
  /\ LET res == KvResult(hostname, kv.host, "kv")
     IN CASE res.k = "return" -> Return(res.r) /\ UNCHANGED consulted
          [] res.k = "next" ->
               /\ pc' = "kvGetDefault"
               /\ consulted' = consulted \o <<"kvDefault">>
               /\ got' = got
          [] OTHER -> Fallback(consulted)
  /\ UNCHANGED <<inputs, domainConfig, now, cfg, rendered, response, page,
                 browser,
                 sideBySide>>

\* get("_default") has settled
KvGetDefaultSettled ==
  /\ pc = "kvGetDefault"
  /\ LET res == KvResult(hostname, kv.default, "kvDefault")
     IN IF res.k = "return"
          THEN Return(res.r) /\ UNCHANGED consulted
          ELSE Fallback(consulted)
  /\ UNCHANGED <<inputs, domainConfig, now, cfg, rendered, response, page,
                 browser,
                 sideBySide>>

\* getConfig after getDomainConfig has returned
GetConfigRest ==
  /\ pc = "getConfig"
  /\ LET base == SelectTheme(hostname, got, themeIndexParam)
         readsClock ==
           /\ ~FinalConfig(hostname, env, base, 0).threw
           /\ Truthy(ResolvedRegistrationDate(hostname, env, base))
     IN \E n \in (IF readsClock THEN NowInstants ELSE {0}) :
          LET r == FinalConfig(hostname, env, base, n)
          IN /\ domainConfig' = base
             /\ now' = IF readsClock THEN Num(n) ELSE now
             /\ cfg' = IF r.threw THEN cfg ELSE r.config
             /\ pc' = IF r.threw THEN "threw" ELSE "dispatch"
  /\ UNCHANGED <<inputs, got, consulted, rendered, response, page, browser,
                 sideBySide>>

\* fetch after getConfig has returned: dispatch, render, respond
Render ==
  /\ pc = "dispatch"
  /\ LET template == Dispatch(cfg)
     IN /\ rendered' = Append(rendered, template)
        /\ IF RendererThrows(template, cfg)
             THEN pc' = "threw" /\ response' = response
             ELSE /\ pc' = "done"
                  /\ response' =
                       Response(hostname, cfg, template, got.allThemes)
  /\ UNCHANGED <<inputs, got, consulted, domainConfig, now, cfg, page,
                 browser,
                 sideBySide>>

\* The browser loads the document and runs its script block: the toggle and
\* the switcher are set up, then the script of the template runs, which on
\* a countdown page calls updateCountdown() once and starts the interval
PageLoad ==
  /\ pc = "done"
  /\ ~browser.doc.loaded
  /\ LET body == response.body
         counts == body.script.countdown /\ ScriptParses(body)
     IN /\ browser' =
             [browser EXCEPT
                !.doc = LoadDocument(body, browser.storage, themeIndexParam)]
        /\ \E ahead \in (IF counts THEN LoadAhead ELSE {0}) :
             page' =
               IF counts
                 THEN UpdateCountdown(
                        [page EXCEPT !.loaded = TRUE, !.display = "digits",
                                     !.before = "digits", !.ahead = ahead],
                        Distance(body.script.launchDate, ahead))
                 ELSE page
  /\ UNCHANGED <<inputs, pc, got, consulted, domainConfig, now, cfg,
                 rendered, response,
                 sideBySide>>

\* setInterval(updateCountdown, 1000) fires
Tick ==
  /\ page.loaded
  /\ page.ticks < MaxTicks
  /\ \E step \in ClockSteps :
       LET ahead == page.ahead - step
       IN page' =
            UpdateCountdown([page EXCEPT !.ahead = ahead,
                                         !.before = page.display,
                                         !.ticks = page.ticks + 1],
                            Distance(response.body.script.launchDate, ahead))
  /\ UNCHANGED <<inputs, pc, got, consulted, domainConfig, now, cfg,
                 rendered, response, browser,
                 sideBySide>>

Next ==
  \/ FetchStart
  \/ ImportSettled
  \/ KvGetSettled
  \/ KvGetDefaultSettled
  \/ GetConfigRest
  \/ Render
  \/ PageLoad
  \/ Tick

Spec == Init /\ [][Next]_vars

----------------------------------------------------------------------------
(* One browser on one site: requests one after the other, the clicks on    *)
(* the toggle and the selections in the switcher between them               *)

\* The site: a development hostname with a list of presets, or a production
\* hostname with a parking record under its own key or under _default
BrowserSite ==
  /\ kvBinding = TRUE
  /\ env = NoProps
  /\ \/ /\ hostname = <<"l", "o", "c", "a", "l", "h", "o", "s", "t">>
        /\ localModule \in {Module(Presets(n)) : n \in 1..MaxPresets}
        /\ kv = [host |-> KvMiss, default |-> KvMiss]
     \/ /\ hostname = <<"c", "d", "n", "-", "f", "a", "r", "m", ".", "i", "o">>
        /\ localModule = ImportThrows
        /\ \E e \in ContactEmails :
             kv \in {[host |-> KvValue(RecContact(e)), default |-> KvMiss],
                     [host |-> KvMiss, default |-> KvValue(RecContact(e))]}

\* What localStorage holds under 'theme' from earlier visits
StoredThemes == {Null, Str(<<"d", "a", "r", "k">>), Str(<<"l", "i", "g", "h", "t">>)}

BrowserInit ==
  /\ BrowserSite
  /\ themeIndexParam \in ThemeIndexParams
  /\ AtEntry
  /\ \E t \in StoredThemes :
       browser = [NoBrowser EXCEPT !.storage.theme = t]
  /\ Alone

\* The browser requests the page again: the document goes, the handler is
\* entered for the new request
NewRequest ==
  /\ pc' = "fetch"
  /\ got' = NoResult
  /\ consulted' = << >>
  /\ domainConfig' = NoProps
  /\ now' = Undefined
  /\ cfg' = NoProps
  /\ rendered' = << >>
  /\ response' = NoResponse
  /\ page' = NoPage
  /\ UNCHANGED <<hostname, env, kvBinding, kv, localModule, sideBySide>>

\* The visitor opens the page at a URL of their choice
Open ==
  /\ \/ pc = "done" /\ browser.doc.loaded
     \/ pc = "threw"
  /\ browser.loads < MaxLoads
  /\ themeIndexParam' \in ThemeIndexParams
  /\ browser' = [browser EXCEPT !.doc = NoDoc, !.loads = @ + 1]
  /\ NewRequest

\* A click on #theme-toggle: the listener runs when the script block has
\* attached it.  before is the mode on display when the click came.
ToggleClick ==
  /\ browser.doc.loaded
  /\ browser.clicks < MaxClicks
  /\ LET clicked ==
           [browser EXCEPT
              !.clicks = @ + 1,
              !.doc.before = IF browser.doc.dark THEN "dark" ELSE "light"]
     IN browser' = IF browser.doc.ran THEN Toggle(clicked) ELSE clicked
  /\ UNCHANGED <<inputs, pc, got, consulted, domainConfig, now, cfg,
                 rendered, response, page,
                 sideBySide>>

\* base.js lines 138-147: another option of #theme-switcher is chosen; the
\* listener stores the value and sets the location, which requests the page
\* with themeIndex set to it
SwitcherChange ==
  /\ browser.doc.loaded
  /\ browser.doc.ran
  /\ response.body.switcher.present
  /\ Truthy(response.body.allThemes)
  /\ browser.loads < MaxLoads
  /\ \E v \in OptionValues(response.body.switcher) \ {browser.doc.selected} :
       /\ themeIndexParam' = Str(v)
       /\ browser' = [browser EXCEPT !.storage.devThemeIndex = Str(v),
                                     !.doc = NoDoc,
                                     !.loads = @ + 1]
  /\ NewRequest

BrowserNext ==
  \/ FetchStart
  \/ ImportSettled
  \/ KvGetSettled
  \/ KvGetDefaultSettled
  \/ GetConfigRest
  \/ Render
  \/ PageLoad
  \/ Open
  \/ ToggleClick
  \/ SwitcherChange

BrowserSpec == BrowserInit /\ [][BrowserNext]_vars

----------------------------------------------------------------------------
(* Requests side by side: the platform runs several calls of fetch over the *)
(* same environment table, KV namespace and local module, each call         *)
(* stopping at its awaits                                                   *)

Reqs == {1, 2}

\* Two of the hostnames differ in one character, a dot for a hyphen
ConcurrentHostnames == {<<"l", "o", "c", "a", "l", "h", "o", "s", "t">>, <<"c", "d", "n", "-", "f", "a", "r", "m", ".", "i", "o">>, <<"c", "d", "n", ".", "f", "a", "r", "m", ".", "i", "o">>}

\* The hostname the per-domain variables of the table were written for
EnvOwner == <<"c", "d", "n", ".", "f", "a", "r", "m", ".", "i", "o">>
OwnerEnvs ==
  {NoProps,
   FieldEnv(EnvOwner, "title", Str(PerDomainValue["title"]), Undefined),
   ConfigEnv(EnvOwner, Str(ConfigJsonGood))}

\* DOMAIN_CONFIGS by key: what a get of the key settles with
Stores ==
  {[k \in ConcurrentHostnames \cup {<<"_", "d", "e", "f", "a", "u", "l", "t">>} |->
      IF k = <<"_", "d", "e", "f", "a", "u", "l", "t">> THEN d
      ELSE IF k \in stored THEN KvValue(RecFull)
      ELSE KvMiss] :
     stored \in {{}, {<<"c", "d", "n", "-", "f", "a", "r", "m", ".", "i", "o">>}},
     d \in {KvMiss, KvValue(RecDerived), KvFault}}

\* What the two gets of a request for hostname h settle with
StoreView(byKey, h) == [host |-> byKey[h], default |-> byKey[<<"_", "d", "e", "f", "a", "u", "l", "t">>]]

\* A call of fetch at its entry; n is what Date.now() gives it, the same for
\* the calls side by side
NewReq(h, param, n) ==
  [hostname |-> h, themeIndexParam |-> param, now |-> n, pc |-> "fetch",
   got |-> NoResult, outcome |-> Threw]

ConcurrentInit ==
  /\ env \in OwnerEnvs
  /\ kvBinding \in BOOLEAN
  /\ localModule \in {ImportThrows, Module(Presets(MaxPresets))}
  /\ kvStore \in Stores
  /\ requests \in
       [Reqs -> {NewReq(h, param, Instant(2025, 6, 1, 0)) :
                   h \in ConcurrentHostnames, param \in {Null, Str(<<"1">>)}}]
  /\ hostname = <<"l", "o", "c", "a", "l", "h", "o", "s", "t">>
  /\ themeIndexParam = Null
  /\ kv = [host |-> KvMiss, default |-> KvMiss]
  /\ AtEntry
  /\ browser = NoBrowser

\* getDomainConfig returns r to the getConfig of request q
Returns(q, r) == [q EXCEPT !.got = r, !.pc = "getConfig"]

\* Line 53 on for request q
Enter(q) ==
  IF kvBinding THEN [q EXCEPT !.pc = "kvGet"]
  ELSE Returns(q, EnvFallback(q.hostname, env))

\* The bindings of line 137 shared by the calls: they hold what the call of
\* getDomainConfig that returned for another request wrote
ReturnedToAny(reqs, r) ==
  LET o == CHOOSE x \in DOMAIN reqs : x # r
  IN IF reqs[o].got # NoResult THEN reqs[o].got ELSE reqs[r].got

\* Line 137: let { config: domainConfig, allThemes } = await
\* getDomainConfig(...), bindings of the call of getConfig for request r
ReturnedTo(reqs, r) == reqs[r].got

\* One request takes a step and nothing else moves
Moves(r, q) ==
  /\ requests' = [requests EXCEPT ![r] = q]
  /\ UNCHANGED <<inputs, pc, got, consulted, domainConfig, now, cfg,
                 rendered, response, page, browser, kvStore>>

ReqStart(r) ==
  /\ requests[r].pc = "fetch"
  /\ Moves(r, IF requests[r].hostname \in DevHostnames
                THEN [requests[r] EXCEPT !.pc = "import"]
                ELSE Enter(requests[r]))

ReqImportSettled(r) ==
  /\ requests[r].pc = "import"
  /\ LET res == LocalResult(requests[r].hostname, localModule)
     IN Moves(r, IF res.k = "return" THEN Returns(requests[r], res.r)
                 ELSE Enter(requests[r]))

ReqKvGetSettled(r) ==
  /\ requests[r].pc = "kvGet"
  /\ LET q == requests[r]
         res == KvResult(q.hostname, kvStore[q.hostname], "kv")
     IN Moves(r, CASE res.k = "return" -> Returns(q, res.r)
                   [] res.k = "next" -> [q EXCEPT !.pc = "kvGetDefault"]
                   [] OTHER -> Returns(q, EnvFallback(q.hostname, env)))

ReqKvGetDefaultSettled(r) ==
  /\ requests[r].pc = "kvGetDefault"
  /\ LET q == requests[r]
         res == KvResult(q.hostname, kvStore[<<"_", "d", "e", "f", "a", "u", "l", "t">>], "kvDefault")
     IN Moves(r, IF res.k = "return" THEN Returns(q, res.r)
                 ELSE Returns(q, EnvFallback(q.hostname, env)))

\* getConfig after getDomainConfig and fetch after getConfig: no await is
\* left, the request runs to its response
ReqFinish(r) ==
  /\ requests[r].pc = "getConfig"
  /\ LET q == requests[r]
         mine == ReturnedTo(requests, r)
         f == FinalConfig(q.hostname, env,
                          SelectTheme(q.hostname, mine, q.themeIndexParam),
                          q.now)
         template == Dispatch(f.config)
     IN Moves(r, IF f.threw \/ RendererThrows(template, f.config)
                   THEN [q EXCEPT !.pc = "threw"]
                   ELSE [q EXCEPT
                           !.pc = "done",
                           !.outcome =
                             [threw |-> FALSE,
                              config |-> f.config,
                              response |->
                                Response(q.hostname, f.config, template,
                                         mine.allThemes)]])

ConcurrentNext ==
  \E r \in Reqs :
    \/ ReqStart(r)
    \/ ReqImportSettled(r)
    \/ ReqKvGetSettled(r)
    \/ ReqKvGetDefaultSettled(r)
    \/ ReqFinish(r)

ConcurrentSpec == ConcurrentInit /\ [][ConcurrentNext]_vars

----------------------------------------------------------------------------
(* Properties *)

\* getDomainConfig has returned
BaseResolved == pc \in {"getConfig", "dispatch", "done", "threw"}

\* getConfig has returned a record
Resolved == cfg # NoProps

\* The steps of the handler and getDomainConfig as a whole agree
StepsAgree ==
  BaseResolved =>
    got = GetDomainConfig(hostname, env, localModule, kvBinding, kv)

\* Date.now() as the handler read it; 0 stands for a clock never read
ClockRead == IF now = Undefined THEN 0 ELSE now.n

\* What the handler as a whole gives for the request of the state
Served ==
  Serve(hostname, themeIndexParam, env, localModule, kvBinding, kv, ClockRead)

\* The steps of fetch and the handler as a whole agree
ServeAgrees ==
  /\ (pc = "done" /\ ~browser.doc.loaded) =>
       LET whole == Served
       IN ~whole.threw /\ whole.response = response /\ whole.config = cfg
  /\ pc = "threw" => Served.threw

\* The sources in their order of priority
SourceOrder == <<"local", "kv", "kvDefault", "envConfig", "default">>
Rank(source) == CHOOSE i \in 1..Len(SourceOrder) : SourceOrder[i] = source

\* Whether a source holds a record for this request
ConfigText == EnvGet(env, PrefixedKey(EnvPrefix(hostname), <<"C", "O", "N", "F", "I", "G">>))
Yields(source) ==
  CASE source = "local" -> LocalSupplies(hostname, localModule)
    [] source = "kv" -> kvBinding /\ KvSupplies(kv.host)
    [] source = "kvDefault" -> kvBinding /\ KvSupplies(kv.default)
    [] source = "envConfig" ->
         Truthy(ConfigText) /\ JsonParse(ConfigText.s).ok
    [] OTHER -> TRUE

\* C1: the base record comes from the first source, in the order local, KV
\* hostname, KV _default, <PREFIX>_CONFIG, hardcoded record, that holds a
\* record; every source read was read after the sources before it held none.
FirstSourceWins ==
  BaseResolved =>
    /\ Yields(got.source)
    /\ \A i \in 1..(Rank(got.source) - 1) : ~Yields(SourceOrder[i])
    /\ consulted[Len(consulted)] = got.source
    /\ \A i \in 1..Len(consulted) :
         \A j \in 1..(Rank(consulted[i]) - 1) : ~Yields(SourceOrder[j])

\* The order holds of every request whose KV reads settle without a fault
FirstSourceWinsWithoutFault ==
  (kv.host # KvFault /\ kv.default # KvFault) => FirstSourceWins

\* The variables and the base value of a scalar field
PerDomainVar(f) == EnvGet(env, PrefixedKey(EnvPrefix(hostname), EnvName[f]))
GlobalVar(f) == EnvGet(env, EnvName[f])
BaseValue(f) == Get(domainConfig, f)
NonEmpty(v) == v.t = "string" /\ Len(v.s) > 0
HasValue(v) == v.t \notin {"undefined", "null"} /\ v # Str(<< >>)
ReturnedScalarFields == ScalarFields \ {"registrationDate"}
ResolvedDate == ResolvedRegistrationDate(hostname, env, domainConfig)

\* C2: a field with a value in the per-domain variable, the global variable
\* and the base record resolves to the per-domain value; without the
\* per-domain variable to the global value; without both to the base value.
\* registrationDate is no field of the returned record: the law is stated of
\* the date the derived fields are computed from.
PrecedenceLaw ==
  Resolved =>
    \A f \in ScalarFields :
      LET final == IF f = "registrationDate" THEN ResolvedDate ELSE cfg[f]
          set == HasValue(GlobalVar(f)) /\ Truthy(BaseValue(f))
      IN /\ HasValue(PerDomainVar(f)) /\ set => final = PerDomainVar(f)
         /\ PerDomainVar(f) = Undefined /\ set => final = GlobalVar(f)
         /\ PerDomainVar(f) = Undefined /\ GlobalVar(f) = Undefined
              /\ Truthy(BaseValue(f)) => final = BaseValue(f)

PrecedenceLawWitness ==
  /\ pc = "done"
  /\ HasValue(PerDomainVar("title")) /\ HasValue(GlobalVar("title"))
  /\ Truthy(BaseValue("title"))
  /\ PerDomainVar("title") # GlobalVar("title")
  /\ GlobalVar("title") # BaseValue("title")
  /\ cfg.title = PerDomainVar("title")

\* The value a field falls back to when the variables and the base record
\* give nothing
HasOwnDefault(f) == f \in {"domain", "domainTitle", "mode"}
OwnDefault(f) ==
  CASE f = "domain" -> Str(hostname)
    [] f = "domainTitle" -> cfg.domain
    [] OTHER -> Str(<<"p", "a", "r", "k", "i", "n", "g">>)
Nullish(v) == v \in {Undefined, Null}

\* C3 as stated: nullish coalescing, a defined variable wins whatever string
\* it holds (domain, domainTitle and mode with their documented defaults
\* behind an absent base value).
NullishOverride ==
  Resolved =>
    \A f \in ReturnedScalarFields :
      cfg[f] = IF ~Nullish(PerDomainVar(f)) THEN PerDomainVar(f)
               ELSE IF ~Nullish(GlobalVar(f)) THEN GlobalVar(f)
               ELSE IF HasOwnDefault(f) /\ Nullish(BaseValue(f))
                 THEN OwnDefault(f)
               ELSE BaseValue(f)

\* C3 amended: the per-domain variable wins when it is a non-empty string,
\* else the global variable when it is a non-empty string, else the base
\* value (for domain, domainTitle and mode a falsy base value gives way to
\* the hostname, the resolved domain and "parking").
TruthyOverride ==
  Resolved =>
    /\ \A f \in ReturnedScalarFields :
         cfg[f] = IF NonEmpty(PerDomainVar(f)) THEN PerDomainVar(f)
                  ELSE IF NonEmpty(GlobalVar(f)) THEN GlobalVar(f)
                  ELSE IF HasOwnDefault(f) /\ ~Truthy(BaseValue(f))
                    THEN OwnDefault(f)
                  ELSE BaseValue(f)
    /\ ResolvedDate =
         IF NonEmpty(PerDomainVar("registrationDate"))
           THEN PerDomainVar("registrationDate")
         ELSE IF NonEmpty(GlobalVar("registrationDate"))
           THEN GlobalVar("registrationDate")
         ELSE BaseValue("registrationDate")

TruthyOverrideWitness ==
  /\ pc = "done"
  /\ PerDomainVar("footerText") = Str(<< >>)
  /\ NonEmpty(GlobalVar("footerText"))
  /\ Truthy(BaseValue("footerText"))
  /\ cfg.footerText = GlobalVar("footerText")

\* No source holds anything for the request: both KV keys miss, the
\* environment table is empty, the local file does not match
NoSource ==
  /\ ~LocalSupplies(hostname, localModule)
  /\ kv = [host |-> KvMiss, default |-> KvMiss]
  /\ DOMAIN env = {}

\* C4: with no KV entry, no environment override and no local file the
\* record has mode parking and the default blue, and the parking template
\* is rendered.
NoSourceGivesParking ==
  (pc = "done" /\ NoSource) =>
    /\ cfg.mode = Str(<<"p", "a", "r", "k", "i", "n", "g">>)
    /\ cfg.accentColor = Str(<<"#", "3", "b", "8", "2", "f", "6">>)
    /\ rendered = <<"parking">>

\* C5: no exception escapes the resolver or the renderer.
NeverFails == pc # "threw"

\* The store with every fault replaced by a miss
FaultAsMiss(o) == IF o.k = "fault" THEN KvMiss ELSE o
WithoutFaults(store) ==
  [host |-> FaultAsMiss(store.host), default |-> FaultAsMiss(store.default)]

\* C6: the base record resolved when a get faults is the one resolved when
\* the same get misses.
FaultIsAbsence ==
  BaseResolved =>
    got = GetDomainConfig(hostname, env, localModule, kvBinding,
                          WithoutFaults(kv))

\* C7: coming-soon selects the coming-soon renderer, landing the landing
\* renderer, every other mode the parking renderer, and one renderer runs.
DispatchTotal ==
  /\ Len(rendered) <= 1
  /\ pc = "done" => Len(rendered) = 1
  /\ rendered # << >> =>
       /\ cfg.mode = Str(<<"c", "o", "m", "i", "n", "g", "-", "s", "o", "o", "n">>) => rendered[1] = "coming-soon"
       /\ cfg.mode = Str(<<"l", "a", "n", "d", "i", "n", "g">>) => rendered[1] = "landing"
       /\ cfg.mode \notin {Str(<<"c", "o", "m", "i", "n", "g", "-", "s", "o", "o", "n">>), Str(<<"l", "a", "n", "d", "i", "n", "g">>)}
            => rendered[1] = "parking"
       /\ pc = "done" => response.body.template = rendered[1]

DispatchTotalWitness ==
  /\ pc = "done"
  /\ cfg.mode = Str(<<"b", "o", "g", "u", "s">>)
  /\ rendered = <<"parking">>

\* The base record supplies no derived age and registration
NoDerivedSupplied ==
  /\ BaseValue("domainAgeYears") = Undefined
  /\ BaseValue("domainRegistration") = Undefined

ValidDate(v) == v.t = "string" /\ IsIsoDate(v.s)
Years == (-100)..100

\* C8: for a valid registration date and no supplied derived field,
\* domainAgeYears is floor((now - date) / 365.25 days) followed by "+" and
\* domainRegistration is "Registered in <year>"; 2010-01-15 seen on
\* 2025-06-01 gives "15+" and "Registered in 2010".
AgeOfValidDate ==
  (Resolved /\ NoDerivedSupplied /\ ValidDate(ResolvedDate)) =>
    LET date == ResolvedDate.s
        days == DaysFromCivil(DigitsValue(SubSeq(date, 1, 4)),
                              DigitsValue(SubSeq(date, 6, 7)),
                              DigitsValue(SubSeq(date, 9, 10)))
        \* four times the age in days
        age4 == now.n - 4 * days
        years == CHOOSE n \in Years : 1461 * n <= age4 /\ age4 < 1461 * (n + 1)
    IN /\ cfg.domainAgeYears = Str(IntToString(years) \o <<"+">>)
       /\ cfg.domainRegistration =
            Str(<<"R", "e", "g", "i", "s", "t", "e", "r", "e", "d", " ", "i", "n", " ">> \o SubSeq(date, 1, 4))
       /\ (date = <<"2", "0", "1", "0", "-", "0", "1", "-", "1", "5">> /\ now = Num(Instant(2025, 6, 1, 0))) =>
            /\ cfg.domainAgeYears = Str(<<"1", "5", "+">>)
            /\ cfg.domainRegistration = Str(<<"R", "e", "g", "i", "s", "t", "e", "r", "e", "d", " ", "i", "n", " ", "2", "0", "1", "0">>)

AgeOfValidDateWitness ==
  /\ pc = "done"
  /\ NoDerivedSupplied
  /\ ResolvedDate = Str(<<"2", "0", "1", "0", "-", "0", "1", "-", "1", "5">>)
  /\ now = Num(Instant(2025, 6, 1, 0))
  /\ cfg.domainAgeYears = Str(<<"1", "5", "+">>)

\* C9: an absent or unparseable registration date gives two empty derived
\* fields.
InvalidDateGivesEmpty ==
  (Resolved /\ NoDerivedSupplied /\ ~ValidDate(ResolvedDate)) =>
    /\ cfg.domainAgeYears = Str(<< >>)
    /\ cfg.domainRegistration = Str(<< >>)

DerivedFields == {"domainAgeYears", "domainRegistration", "domainExtension"}

\* C10 as stated: a derived field the base record supplies is carried as
\* supplied.
SuppliedDerivedWins ==
  Resolved =>
    \A d \in DerivedFields :
      ~Nullish(BaseValue(d)) => cfg[d] = BaseValue(d)

\* C10 amended: a derived field the base record supplies with a truthy
\* (non-empty) value is carried as supplied, whatever recomputation gives;
\* a field that is not supplied, or supplied falsy, is recomputed.
TruthySuppliedDerivedWins ==
  Resolved =>
    \A d \in DerivedFields :
      IF Truthy(BaseValue(d)) THEN cfg[d] = BaseValue(d)
      ELSE /\ cfg[d] \notin {Undefined, Null}
           /\ (d = "domainAgeYears" /\ ResolvedDate = Str(<<"2", "0", "1", "5", "-", "0", "6", "-", "0", "1">>)
                 /\ now = Num(Instant(2025, 6, 1, 0))) => cfg[d] = Str(<<"1", "0", "+">>)
           /\ (d = "domainRegistration" /\ ResolvedDate = Str(<<"2", "0", "1", "5", "-", "0", "6", "-", "0", "1">>))
                => cfg[d] = Str(<<"R", "e", "g", "i", "s", "t", "e", "r", "e", "d", " ", "i", "n", " ", "2", "0", "1", "5">>)
           /\ (d = "domainExtension" /\ cfg.domainTitle = Str(<<"c", "d", "n", "-", "f", "a", "r", "m", ".", "i", "o">>))
                => cfg[d] = Str(<<".", "i", "o">>)

TruthySuppliedDerivedWinsWitness ==
  /\ pc = "done"
  /\ BaseValue("domainAgeYears") = Str(<<"2", "0", "+">>)
  /\ BaseValue("domainExtension") = Str(<<".", "x", "y", "z">>)
  /\ ResolvedDate = Str(<<"2", "0", "1", "5", "-", "0", "6", "-", "0", "1">>)
  /\ cfg.domainTitle = Str(<<"c", "d", "n", "-", "f", "a", "r", "m", ".", "i", "o">>)
  /\ cfg.domainAgeYears = Str(<<"2", "0", "+">>)
  /\ cfg.domainRegistration = Str(<<"E", "s", "t", ".", " ", "1", "9", "9", "9">>)
  /\ cfg.domainExtension = Str(<<".", "x", "y", "z">>)

\* A dotted-quad IPv4 literal: four runs of one to three digits
DottedQuad(s) ==
  /\ Len(SelectSeq(s, LAMBDA c : c = ".")) = 3
  /\ \A i \in 1..Len(s) : s[i] = "." \/ s[i] \in Digits
  /\ s[1] # "." /\ s[Len(s)] # "."
  /\ \A i \in 1..(Len(s) - 1) : ~(s[i] = "." /\ s[i + 1] = ".")
  /\ \A i \in 1..(Len(s) - 3) :
       \E j \in i..(i + 3) : s[j] = "."

\* C11 as stated: a request for a dotted-quad hostname resolves to an empty
\* domainExtension, whatever the base record and the environment table hold.
Ipv4HostHasNoExtension ==
  (Resolved /\ DottedQuad(hostname)) => cfg.domainExtension = Str(<< >>)

\* C11 amended: the test is on the resolved domainTitle.  When that is a
\* dotted quad and the base record supplies no domainExtension of its own,
\* domainExtension is the empty string.
Ipv4TitleHasNoExtension ==
  (/\ Resolved
   /\ IsString(cfg.domainTitle)
   /\ DottedQuad(cfg.domainTitle.s)
   /\ ~Truthy(BaseValue("domainExtension")))
    => cfg.domainExtension = Str(<< >>)

Ipv4TitleHasNoExtensionWitness ==
  /\ pc = "done"
  /\ hostname = <<"1", "2", "7", ".", "0", ".", "0", ".", "1">>
  /\ cfg.domainTitle = Str(<<"1", "2", "7", ".", "0", ".", "0", ".", "1">>)
  /\ cfg.domainExtension = Str(<< >>)

\* The prefix the README gives for each hostname of the model
ExpectedPrefix ==
  CASE hostname = <<"c", "d", "n", "-", "f", "a", "r", "m", ".", "i", "o">> -> <<"C", "D", "N", "_", "F", "A", "R", "M", "_", "I", "O">>
    [] hostname = <<"1", "2", "7", ".", "0", ".", "0", ".", "1">> -> <<"1", "2", "7", "_", "0", "_", "0", "_", "1">>
    [] hostname = <<"l", "o", "c", "a", "l", "h", "o", "s", "t">> -> <<"L", "O", "C", "A", "L", "H", "O", "S", "T">>
    [] hostname = <<"m", "y", "-", "c", "o", "o", "l", "-", "s", "i", "t", "e", ".", "c", "o", "m">> -> <<"M", "Y", "_", "C", "O", "O", "L", "_", "S", "I", "T", "E", "_", "C", "O", "M">>
ExpectedKey(name) == ExpectedPrefix \o <<"_">> \o name

\* C12: the prefix is the hostname with every "." and "-" replaced by "_",
\* uppercased (cdn-farm.io gives CDN_FARM_IO, 127.0.0.1 gives 127_0_0_1);
\* the <PREFIX>_CONFIG text and the <PREFIX>_<FIELD> variables are read
\* under that prefix.
PrefixNormalised ==
  LET prefix == EnvPrefix(hostname)
  IN /\ prefix = ExpectedPrefix
     /\ Len(prefix) = Len(hostname)
     /\ \A i \in 1..Len(hostname) :
          /\ hostname[i] \in {".", "-"} <=> prefix[i] = "_"
          /\ hostname[i] \in Digits => prefix[i] = hostname[i]
          /\ prefix[i] \notin {".", "-"}
     /\ (BaseResolved /\ got.source = "envConfig") =>
          /\ ExpectedKey(<<"C", "O", "N", "F", "I", "G">>) \in DOMAIN env
          /\ got.config =
               WithDomain(hostname,
                          JsonParse(env[ExpectedKey(<<"C", "O", "N", "F", "I", "G">>)].s).v)
     /\ (Resolved /\ ExpectedKey(<<"T", "I", "T", "L", "E">>) \in DOMAIN env
           /\ NonEmpty(env[ExpectedKey(<<"T", "I", "T", "L", "E">>)])) =>
          cfg.title = env[ExpectedKey(<<"T", "I", "T", "L", "E">>)]

PrefixNormalisedWitness ==
  /\ pc = "done"
  /\ hostname = <<"m", "y", "-", "c", "o", "o", "l", "-", "s", "i", "t", "e", ".", "c", "o", "m">>
  /\ <<"M", "Y", "_", "C", "O", "O", "L", "_", "S", "I", "T", "E", "_", "C", "O", "M", "_", "T", "I", "T", "L", "E">> \in DOMAIN env
  /\ cfg.title = Str(<<"p", "v">>)

\* The structured fields and what each is when the base record lacks it
StructuredFields == {"features", "socialLinks", "links"}
EmptyOf(f) == IF f = "socialLinks" THEN Obj(NoProps) ELSE Arr(<< >>)

\* The environment table with every field variable removed
WithoutFieldVariables ==
  [k \in (DOMAIN env) \cap {PrefixedKey(EnvPrefix(hostname), <<"C", "O", "N", "F", "I", "G">>)}
     |-> env[k]]

\* C13: features, socialLinks and links are those of the base record, the
\* empty list or object when it lacks them, and the base record is the one
\* selected under the table without its field variables: no per-domain or
\* global field variable changes them.
StructuredFromBase ==
  Resolved =>
    /\ \A f \in StructuredFields :
         cfg[f] = IF Nullish(BaseValue(f)) THEN EmptyOf(f) ELSE BaseValue(f)
    /\ domainConfig =
         SelectTheme(hostname,
                     GetDomainConfig(hostname, WithoutFieldVariables,
                                     localModule, kvBinding, kv),
                     themeIndexParam)

StructuredFromBaseWitness ==
  /\ pc = "done"
  /\ Truthy(PerDomainVar("title")) /\ Truthy(GlobalVar("title"))
  /\ cfg.title = PerDomainVar("title")
  /\ cfg.features = Arr(<<Str(<<"f">>)>>)
  /\ cfg.socialLinks = Obj([github |-> Str(<<"u">>)])
  /\ cfg.links = Arr(<<Obj([title |-> Str(<<"l">>), url |-> Str(<<"u">>)])>>)

\* getConfig has chosen its base record
BaseChosen == domainConfig # NoProps

\* The local file supplied a list of presets
PresetsSupplied ==
  /\ got.source = "local"
  /\ IsArray(localModule.default)
  /\ Len(localModule.default.items) > 0

\* The integer parseInt reads from the parameter: the decimal text of i,
\* or a text that starts with it ("1x" reads as 1)
ReadsIndex(param, i) ==
  \/ param = Str(IntToString(i))
  \/ i = 1 /\ param = Str(<<"1", "x">>)

Responded == pc = "done"

\* C15: a resolved footerText of "" leaves no footer block in the document,
\* in parking, coming-soon and landing mode alike.
EmptyFooterTextHidesFooter ==
  (Responded /\ cfg.footerText = Str(<< >>)) => ~response.body.footer.present

\* Where renderFooter writes the footer, on the parking and the landing
\* page, the empty footerText does hide it
EmptyFooterTextHidesSharedFooter ==
  (Responded /\ response.body.template # "coming-soon") =>
    EmptyFooterTextHidesFooter

\* C16: an absent footerText shows the sentence of the mode (the domainTitle
\* on the landing page, the for-sale sentence on the parking page, on the
\* coming-soon page "Stay tuned for our launch" with a launchDate and
\* "Something exciting is coming" without); a non-empty footerText is shown
\* as it is.
FooterTextShown ==
  Responded =>
    LET footer == response.body.footer
        template == response.body.template
    IN /\ cfg.footerText = Undefined =>
            /\ footer.present
            /\ template = "landing" => footer.text = cfg.domainTitle.s
            /\ template = "parking" => footer.text = ParkingFooterDefault
            /\ (template = "coming-soon" /\ Truthy(cfg.launchDate)) =>
                 footer.text = StayTuned
            /\ (template = "coming-soon" /\ ~Truthy(cfg.launchDate)) =>
                 footer.text = SomethingExciting
       /\ NonEmpty(cfg.footerText) =>
            footer.present /\ footer.text = cfg.footerText.s

FooterTextShownWitness ==
  /\ Responded
  /\ response.body.template = "coming-soon"
  /\ cfg.footerText = Undefined
  /\ Truthy(cfg.launchDate)
  /\ response.body.footer.text = StayTuned

\* C17: the credit line is in the footer exactly when the resolved
\* showCredit is true.
CreditFollowsShowCredit ==
  (Responded /\ response.body.footer.present) =>
    (response.body.footer.credit <=> cfg.showCredit = Bool(TRUE))

\* A showCredit of false takes the credit line away
ShowCreditFalseHidesCredit ==
  (Responded /\ cfg.showCredit = Bool(FALSE)) => ~response.body.footer.credit

\* The distance updateCountdown last computed
LastDistance == Distance(response.body.script.launchDate, page.ahead)
IsNegative(distance) == distance # NaN /\ distance.n < 0

\* C18: the run of updateCountdown that finds launchDate - now negative
\* puts the live message in place of the countdown; every later run leaves
\* the live message there and writes no digit, whatever the clock says.
LiveIsPermanent ==
  page.loaded =>
    /\ IsNegative(LastDistance) => page.display = "live"
    /\ page.before = "live" => page.display = "live"
    /\ page.display = "live" => page.digits = NoDigits
    /\ (page.before # "live" /\ ~IsNegative(LastDistance)) =>
         page.display = "digits" /\ page.digits # NoDigits

\* The live message was shown and a later run found the launch ahead again
LiveIsPermanentWitness ==
  /\ page.loaded
  /\ page.display = "live"
  /\ page.before = "live"
  /\ page.ticks >= 2
  /\ ~IsNegative(LastDistance)
  /\ page.errors = 1

\* The mode a template is the page of
ModeOf(template) ==
  CASE template = "coming-soon" -> Str(<<"c", "o", "m", "i", "n", "g", "-", "s", "o", "o", "n">>)
    [] template = "landing" -> Str(<<"l", "a", "n", "d", "i", "n", "g">>)
    [] template = "parking" -> Str(<<"p", "a", "r", "k", "i", "n", "g">>)

\* C19: every response is text/html;charset=UTF-8 with cache-control
\* public, max-age=3600; x-served-domain is the hostname of the request and
\* x-page-mode is the mode whose template wrote the body.
HeadersNameThePage ==
  Responded =>
    /\ response.contentType = "text/html;charset=UTF-8"
    /\ response.cacheControl = "public, max-age=3600"
    /\ response.servedDomain = hostname
    /\ response.pageMode = ModeOf(response.body.template)

\* The headers as the handler writes them: x-page-mode is the mode field of
\* the resolved record, whatever it holds
HeadersEchoRecord ==
  Responded =>
    /\ response.contentType = "text/html;charset=UTF-8"
    /\ response.cacheControl = "public, max-age=3600"
    /\ response.servedDomain = hostname
    /\ response.pageMode = cfg.mode

\* The KV gets issued so far, in order
Issued == SelectSeq(consulted, LAMBDA c : c \in {"kv", "kvDefault"})

\* C20: get("_default") is issued only after get(hostname) has settled
\* with absence; the two are never in flight together; each key is asked
\* for at most once; no get is issued when the local file supplied the base
\* record or DOMAIN_CONFIGS is not bound.
KvGetsSequential ==
  /\ Cardinality(InFlight) <= 1
  /\ Issued \in {<< >>, <<"kv">>, <<"kv", "kvDefault">>}
  /\ InFlight = {"kv"} => Issued = <<"kv">>
  /\ Len(Issued) = 2 =>
       /\ "kv" \notin InFlight
       /\ kv.host # KvFault
       /\ ~KvSupplies(kv.host)
  /\ (BaseResolved /\ LocalSupplies(hostname, localModule)) => Issued = << >>
  /\ ~kvBinding => Issued = << >>

KvGetsSequentialWitness ==
  /\ pc = "kvGetDefault"
  /\ InFlight = {"kvDefault"}
  /\ Issued = <<"kv", "kvDefault">>
  /\ kv.host = KvMiss

----------------------------------------------------------------------------
(* The local file and the presets on production hostnames *)

\* The development hostnames as the specification lists them
AllowList ==
  {<<"l", "o", "c", "a", "l", "h", "o", "s", "t">>, <<"1", "2", "7", ".", "0", ".", "0", ".", "1">>, <<"d", "o", "m", "a", "i", "n", "-", "p", "a", "r", "k", "o", "u", "r", ".", "a", "p", "i", "a", "r", "y", ".", "w", "o", "r", "k", "e", "r", "s", ".", "d", "e", "v">>}

\* The handler as a whole for the request of the state with another
\* themeIndex parameter
ServedWith(param) ==
  Serve(hostname, param, env, localModule, kvBinding, kv, ClockRead)

\* C21: for a hostname outside the allow-list the local file is never
\* consulted, no presets are returned or embedded in the document, the
\* document has no switcher, and the themeIndex parameter has no effect:
\* the record and the response are those of the same request with any
\* other value of the parameter.
DevOnly ==
  hostname \notin AllowList =>
    /\ \A i \in 1..Len(consulted) : consulted[i] # "local"
    /\ BaseResolved => got.allThemes = Undefined
    /\ pc \in {"dispatch", "done"} => domainConfig = got.config
    /\ pc = "threw" => \A p \in ThemeIndexParams : ServedWith(p).threw
    /\ pc = "done" =>
         /\ ~response.body.switcher.present
         /\ response.body.allThemes = Undefined
         /\ ~browser.doc.loaded =>
              \A p \in ThemeIndexParams :
                LET other == ServedWith(p)
                IN /\ ~other.threw
                   /\ other.config = cfg
                   /\ other.response = response

DevOnlyWitness ==
  /\ hostname \notin AllowList
  /\ themeIndexParam = Str(<<"1">>)
  /\ pc = "done"
  /\ got.source = "kv"
  /\ cfg.mode = Str(<<"c", "o", "m", "i", "n", "g", "-", "s", "o", "o", "n">>)

----------------------------------------------------------------------------
(* The mode of the resolved record *)

RecognisedModes == {Str(<<"p", "a", "r", "k", "i", "n", "g">>), Str(<<"c", "o", "m", "i", "n", "g", "-", "s", "o", "o", "n">>), Str(<<"l", "a", "n", "d", "i", "n", "g">>)}

\* C22: the mode of every resolved record is 'parking', 'coming-soon' or
\* 'landing', whatever the base record and the MODE variables carry.
ModeIsRecognised == Resolved => cfg.mode \in RecognisedModes

\* What the code gives instead: the first truthy value among the per-domain
\* variable, the global variable and the mode of the base record, as it
\* stands, and 'parking' when there is none.
ModeIsFirstTruthy ==
  Resolved =>
    LET given == Or(Or(PerDomainVar("mode"), GlobalVar("mode")),
                    Get(domainConfig, "mode"))
    IN cfg.mode = IF Truthy(given) THEN given ELSE Str(<<"p", "a", "r", "k", "i", "n", "g">>)

----------------------------------------------------------------------------
(* The extension computed from the domainTitle *)

\* The place of the last dot of s, 0 when s has none
LastDot(s) ==
  IF \E i \in 1..Len(s) : s[i] = "."
    THEN CHOOSE i \in 1..Len(s) :
           s[i] = "." /\ \A j \in (i + 1)..Len(s) : s[j] # "."
    ELSE 0

\* '.' and the last label of a title of more than one label that is no
\* dotted quad; the empty string otherwise
ExpectedExtension(s) ==
  IF ~DottedQuad(s) /\ LastDot(s) > 0
    THEN <<".">> \o SubSeq(s, LastDot(s) + 1, Len(s))
    ELSE << >>

\* C24: the extension getConfig computes is a function of the resolved
\* domainTitle alone: '.' and the last label when the title is no IPv4
\* dotted quad and has more than one label, the empty string otherwise.
\* The computed extension is the domainExtension of the record whenever the
\* base record brings no domainExtension of its own.
ExtensionFromTitle ==
  (/\ Resolved
   /\ IsString(cfg.domainTitle)
   /\ ~Truthy(BaseValue("domainExtension")))
    => cfg.domainExtension = Str(ExpectedExtension(cfg.domainTitle.s))

ExtensionFromTitleWitness ==
  /\ pc = "done"
  /\ cfg.domainTitle = Str(<<"G", ".", "e", "x", "a", "m", "p", "l", "e", ".", "o", "r", "g">>)
  /\ cfg.domainExtension = Str(<<".", "o", "r", "g">>)
  /\ ~Truthy(BaseValue("domainExtension"))

\* Every resolved record has a string for its domainTitle: a title that is
\* no string ends getConfig at the split of line 184
ResolvedTitleIsString == Resolved => IsString(cfg.domainTitle)

\* The cases of the extension that occur: a numeric title that is no dotted
\* quad, a single label, a dotted quad
NumericTitleSeen ==
  Resolved /\ cfg.domainTitle = Str(<<"1", ".", "2", ".", "3", ".", "4", "4", "4", "4">>)
           /\ cfg.domainExtension = Str(<<".", "4", "4", "4", "4">>)
SingleLabelSeen ==
  Resolved /\ cfg.domainTitle = Str(<<"g", "l", "o", "b", "a", "l">>)
           /\ cfg.domainExtension = Str(<< >>)
DottedQuadSeen ==
  Resolved /\ cfg.domainTitle = Str(<<"1", "0", ".", "0", ".", "0", ".", "1">>)
           /\ cfg.domainExtension = Str(<< >>)

----------------------------------------------------------------------------
(* The digits of the countdown *)

\* The number a digit element shows
Shown(field) == ParseInt(page.digits[field]).n

\* The run of updateCountdown that wrote the digits on display found a
\* distance that is a number and not negative
DigitsWritten ==
  /\ page.loaded
  /\ page.display = "digits"
  /\ LastDistance # NaN
  /\ ~IsNegative(LastDistance)

\* C23: after every run of updateCountdown with delta = launchDate - now not
\* negative, the fields on display satisfy 0 <= hours <= 23, 0 <= minutes <=
\* 59, 0 <= seconds <= 59, days >= 0 and days * 86400 + hours * 3600 +
\* minutes * 60 + seconds = floor(delta / 1000); with the launch one hour
\* ahead hours is not zero and days is zero.  Each field is written with at
\* least two digits.
CountdownDigits ==
  DigitsWritten =>
    /\ \A f \in DOMAIN page.digits :
         /\ Len(page.digits[f]) >= 2
         /\ \A i \in 1..Len(page.digits[f]) : page.digits[f][i] \in Digits
    /\ Shown("days") >= 0
    /\ Shown("hours") \in 0..23
    /\ Shown("minutes") \in 0..59
    /\ Shown("seconds") \in 0..59
    /\ Shown("days") * 86400 + Shown("hours") * 3600
         + Shown("minutes") * 60 + Shown("seconds")
         = LastDistance.n \div 1000
    /\ LastDistance.n = 3600000 =>
         Shown("hours") # 0 /\ Shown("days") = 0

CountdownDigitsWitness ==
  /\ DigitsWritten
  /\ page.ticks = 0
  /\ LastDistance.n = 3600000
  /\ page.digits.hours = <<"0", "1">>
  /\ page.digits.days = <<"0", "0">>

\* The fields carry from one to the next: a second before the hour, and a
\* distance of more than a day
BelowTheHourSeen ==
  /\ DigitsWritten
  /\ page.digits =
       [days |-> <<"0", "0">>, hours |-> <<"0", "0">>, minutes |-> <<"5", "9">>, seconds |-> <<"5", "9">>]
MoreThanADaySeen ==
  /\ DigitsWritten
  /\ page.digits =
       [days |-> <<"0", "1">>, hours |-> <<"0", "1">>, minutes |-> <<"0", "1">>, seconds |-> <<"0", "2">>]

----------------------------------------------------------------------------
(* The local file whose value is no list of presets *)

\* import() has settled on a development hostname
ImportDone == hostname \in AllowList /\ pc \notin {"fetch", "import"}

\* The local branch returned nothing: a source after the local file was
\* read
FellThrough == ImportDone /\ Len(consulted) >= 2

\* { domain: hostname, ...v } for a value v that is an object, or has no
\* property to copy
LocalRecordOf(v, config) ==
  LET own == IF v.t = "object" THEN v.o ELSE NoProps
  IN /\ DOMAIN config = {"domain"} \cup DOMAIN own
     /\ \A k \in DOMAIN own : config[k] = own[k]
     /\ "domain" \notin DOMAIN own => config.domain = Str(hostname)

\* C30 as stated: on a development hostname the local branch falls through
\* only when import() throws or the module has no default value (undefined,
\* or null).
FallThroughOnlyWithoutDefault ==
  FellThrough =>
    \/ localModule = ImportThrows
    \/ localModule.default \in {Undefined, Null}

\* C30 amended: on a development hostname, when the module loads with a
\* truthy value that is no non-empty list (the empty list, a single object,
\* a number), getDomainConfig returns the local record { domain: hostname,
\* ...value } with no presets beside it and reads no other source; the
\* branch falls through exactly when import() throws or the default value
\* is falsy (undefined, null, 0).
LocalValueReturns ==
  ImportDone =>
    LET loaded == localModule.k = "module" /\ Truthy(localModule.default)
        list == loaded /\ IsArray(localModule.default)
                       /\ Len(localModule.default.items) > 0
    IN /\ (loaded /\ ~list) =>
            /\ consulted = <<"local">>
            /\ got.source = "local"
            /\ got.allThemes = Undefined
            /\ LocalRecordOf(localModule.default, got.config)
       /\ loaded => ~FellThrough
       /\ ~loaded => FellThrough

LocalValueReturnsWitness ==
  /\ hostname = <<"l", "o", "c", "a", "l", "h", "o", "s", "t">>
  /\ localModule = Module(Arr(<< >>))
  /\ pc = "done"
  /\ consulted = <<"local">>
  /\ got.config = [domain |-> Str(<<"l", "o", "c", "a", "l", "h", "o", "s", "t">>)]
  /\ got.allThemes = Undefined

\* The old format, a single object, and the fall-through of a falsy value
SingleObjectSeen ==
  /\ pc = "done"
  /\ localModule = Module(RecFull)
  /\ got.source = "local"
  /\ got.config.title = Str(<<"b", "t">>)
FalsyValueFallsThrough ==
  /\ hostname \in AllowList
  /\ localModule = Module(Num(0))
  /\ got.source = "kv"

----------------------------------------------------------------------------
(* The light/dark toggle *)

\* The mode on display and the mode the stored value asks for
ModeShown == IF browser.doc.dark THEN "dark" ELSE "light"
ModeStored ==
  IF Or(browser.storage.theme, Str(<<"d", "a", "r", "k">>)) = Str(<<"d", "a", "r", "k">>) THEN "dark"
  ELSE "light"

\* A click has come since the document loaded
Clicked == browser.doc.before # "none"

\* What C25 says of a loaded document
ToggleLaw ==
  /\ browser.doc.darkIconHidden # browser.doc.lightIconHidden
  /\ browser.doc.dark <=> ~browser.doc.lightIconHidden
  /\ ~Clicked => ModeShown = ModeStored
  /\ Clicked =>
       /\ browser.storage.theme = Str(IF browser.doc.dark THEN <<"d", "a", "r", "k">> ELSE <<"l", "i", "g", "h", "t">>)
       /\ ModeShown # browser.doc.before

\* C25: on load the theme is the one stored under 'theme', dark when nothing
\* is stored; after any clicks on the toggle exactly one of the two icons is
\* visible, the document is dark iff the light icon is the visible one, the
\* stored value is the mode on display, and each click has flipped the mode.
ToggleConsistent == browser.doc.loaded => ToggleLaw

\* The same for the documents whose script block has run
ToggleConsistentWhenScriptRuns ==
  (browser.doc.loaded /\ browser.doc.ran) => ToggleLaw

\* Two clicks on a document that loaded light
TwoClicksSeen ==
  /\ browser.doc.ran
  /\ browser.clicks = 2
  /\ browser.loads = 0
  /\ browser.storage.theme = Str(<<"l", "i", "g", "h", "t">>)
  /\ ~browser.doc.dark

----------------------------------------------------------------------------
(* The preset switcher *)

\* The document on display has a switcher
SwitcherShown == browser.doc.loaded /\ response.body.switcher.present

\* The presets the local file holds, and the record preset i gives
PresetList == localModule.default.items
FromPreset(i) == WithDomain(hostname, PresetList[i + 1])

\* The page was rendered from preset i and the switcher shows i selected
ShowsAndServes(i) ==
  /\ browser.doc.selected = NatToString(i)
  /\ domainConfig = FromPreset(i)

\* The request named no preset, or one of the list
WellFormedRequest ==
  \/ themeIndexParam = Null
  \/ themeIndexParam.s \in OptionValues(response.body.switcher)

\* C26: across page loads and selections, the index the switcher shows as
\* selected is the index of the preset the server rendered the page from,
\* whether it came from the themeIndex parameter or from the stored
\* devThemeIndex.  Stated for the requests whose themeIndex is absent or
\* names a preset of the list.
SwitcherShowsServedPreset ==
  (SwitcherShown /\ WellFormedRequest) =>
    \E i \in 0..(Len(PresetList) - 1) : ShowsAndServes(i)

\* What holds: a themeIndex that names a preset is both served and shown,
\* so a selection of i, which stores i and requests themeIndex = i, ends
\* with the page rendered from preset i and i selected; without a themeIndex
\* the server renders preset 0 and the switcher shows the stored index.
SwitcherFollowsUrl ==
  SwitcherShown =>
    /\ (themeIndexParam # Null /\ WellFormedRequest) =>
         ShowsAndServes(ParseInt(themeIndexParam.s).n)
    /\ themeIndexParam = Null =>
         /\ domainConfig = FromPreset(0)
         /\ browser.doc.selected =
              Or(browser.storage.devThemeIndex, Str(<<"0">>)).s

\* A selection of preset 1 has been served and is shown
SelectionServedSeen ==
  /\ SwitcherShown
  /\ browser.loads = 1
  /\ browser.storage.devThemeIndex = Str(<<"1">>)
  /\ themeIndexParam = Str(<<"1">>)
  /\ ShowsAndServes(1)

----------------------------------------------------------------------------
(* The contact address of the parking page *)

\* The document on display is a parking page with a contact address
ContactShown ==
  /\ browser.doc.loaded
  /\ response.body.template = "parking"
  /\ Truthy(cfg.contactEmail)

\* C28: for every non-empty contactEmail, the address the script rebuilds
\* from its two halves and sets as the mailto target of the contact link is
\* the configured contactEmail; the href is '#' in the markup until then.
ContactRoundTrip ==
  /\ ContactShown => browser.doc.href = <<"m", "a", "i", "l", "t", "o", ":">> \o cfg.contactEmail.s
  /\ (pc = "done" /\ Truthy(cfg.contactEmail)
        /\ response.body.template = "parking") =>
       response.body.contact.href = <<"#">>

\* An address with exactly one @ and no quote
PlainAddress(e) ==
  /\ Cardinality({i \in 1..Len(e) : e[i] = "@"}) = 1
  /\ ~HasQuote(e)

\* What holds: the round trip for the plain addresses
ContactRoundTripPlain ==
  /\ (ContactShown /\ PlainAddress(cfg.contactEmail.s)) =>
       browser.doc.href = <<"m", "a", "i", "l", "t", "o", ":">> \o cfg.contactEmail.s
  /\ (pc = "done" /\ Truthy(cfg.contactEmail)
        /\ response.body.template = "parking") =>
       response.body.contact.href = <<"#">>

PlainAddressSeen ==
  /\ ContactShown
  /\ browser.doc.href = <<"m", "a", "i", "l", "t", "o", ":", "s", "a", "l", "e", "s", "@", "c", "d", "n", "-", "f", "a", "r", "m", ".", "i", "o">>

----------------------------------------------------------------------------
(* Requests side by side *)

\* What the handler gives request r when it runs alone over the table, the
\* store and the local module of the state
AloneOutcome(r) ==
  LET q == requests[r]
  IN Serve(q.hostname, q.themeIndexParam, env, localModule, kvBinding,
           StoreView(kvStore, q.hostname), q.now)

Finished(r) == requests[r].pc \in {"done", "threw"}

\* Every finished request has the record and the document of its run alone,
\* and two finished requests for the same hostname and URL have the same
SameAsAlone ==
  /\ \A r \in DOMAIN requests :
       Finished(r) =>
         /\ requests[r].pc = "threw" <=> AloneOutcome(r).threw
         /\ requests[r].pc = "done" => requests[r].outcome = AloneOutcome(r)
  /\ \A r, o \in DOMAIN requests :
       (/\ Finished(r) /\ Finished(o)
        /\ requests[r].hostname = requests[o].hostname
        /\ requests[r].themeIndexParam = requests[o].themeIndexParam)
         => /\ requests[r].pc = requests[o].pc
            /\ requests[r].outcome = requests[o].outcome

\* A step leaves the preset list, the environment table and the store as
\* they are, and moves at most one request
SharedUntouched ==
  /\ UNCHANGED <<env, localModule, kvBinding, kvStore>>
  /\ \E r \in DOMAIN requests :
       \A o \in DOMAIN requests \ {r} : requests'[o] = requests[o]

----------------------------------------------------------------------------
(* The per-domain variables of another hostname *)

\* What the handler gives request r over a table without the variables
\* written for EnvOwner, which are all the table holds
OutcomeWithoutOwner(r) ==
  LET q == requests[r]
  IN Serve(q.hostname, q.themeIndexParam, NoProps, localModule, kvBinding,
           StoreView(kvStore, q.hostname), q.now)

\* The variables of the table leave request r as it would be without them
Uninfluenced(r) ==
  /\ requests[r].pc = "threw" <=> OutcomeWithoutOwner(r).threw
  /\ requests[r].pc = "done" => requests[r].outcome = OutcomeWithoutOwner(r)

\* C29: a variable <PREFIX>_<FIELD> or <PREFIX>_CONFIG whose prefix was built
\* from hostname A influences the record of a request for hostname B only
\* if A = B; distinct hostnames never have the same prefix.
PrefixIsolation ==
  \A r \in DOMAIN requests :
    (Finished(r) /\ requests[r].hostname # EnvOwner) => Uninfluenced(r)

\* What holds: the variables influence the requests whose hostname has the
\* prefix of A, and no other
PrefixIsolationByPrefix ==
  \A r \in DOMAIN requests :
    (Finished(r) /\ EnvPrefix(requests[r].hostname) # EnvPrefix(EnvOwner))
      => Uninfluenced(r)

\* The variables do reach the requests for A itself
OwnerInfluencedSeen ==
  /\ requests # << >>
  /\ requests[1].pc = "done"
  /\ requests[1].hostname = EnvOwner
  /\ ~Uninfluenced(1)

====
